---- MODULE Spec2Model ----
(***************************************************************************)
(* Model of the reactive pipeline of src/src/api/observables.ts (the       *)
(* second, current revision of the file, lines 359-718), of the stream     *)
(* operators it builds: switchMapIgnoreThrow, optimisticContract and       *)
(* distinctArrayItem, and of the pure helpers of src/src/api/pureHelpers.ts*)
(* (groupPositionsArray, expandToken, calculatePriceDeviationTooHigh,      *)
(* calculateLimits).                                                       *)
(*                                                                         *)
(* Each operator has a specification of its own (SpecSwitch,               *)
(* SpecOptimistic, SpecAccumulator), the chain of streams built from them  *)
(* has SpecPipeline and the pure helpers have SpecHelpers.  SpecNetwork    *)
(* follows networkVersion$ and the two fetches switched on it,             *)
(* SpecPositions the position streams, SpecSettings the settings streams   *)
(* and SpecOldAddresses the contractAddresses$ of the first revision of    *)
(* the file (lines 1-358).  Under one specification the variables of the   *)
(* others are held at their idle values.                                   *)
(***************************************************************************)
EXTENDS Integers, Sequences, FiniteSets, TLC

(***************************************************************************)
(* Bounds of the model.                                                    *)
(***************************************************************************)
MaxFetch == 3      \* parent values fed to the switchMapIgnoreThrow stage
MaxLive == 5       \* live values fed to the optimisticContract stage
MaxElems == 5      \* elements fed to distinctArrayItem, all batches together
MaxBatches == 2    \* batches fed to distinctArrayItem
MaxInitLen == 1    \* elements of distinctArrayItem's initialValue
NumSets == 2       \* distinct contract address sets the registry may deliver
NumParents == 2    \* distinct parent values
NumAddr == 2       \* distinct addresses a fetch may deliver

None == "none"
\* addresses as the contract wrappers return them (strings)
AddrNames == <<"0xA", "0xB", "0xC", "0xD">>
Addr == {AddrNames[i] : i \in 1..NumAddr}
Parents == 1..NumParents

\* the sentinel of switchMapIgnoreThrow (observables.ts:460)
DontThrow == "DONT THROW"

VARIABLES
  \* ---- switchMapIgnoreThrow stage (observables.ts:455-463)
  proms,        \* the promises switchMapProm returned, in call order
  subscribed,   \* ids of the inner promises switchMap is subscribed to
  swOut,        \* what the stage delivered downstream: [id, val]
  swErr,        \* an error notification reached the downstream observer
  swDead,       \* the stage's subscription to its source has ended
  superseded,   \* fetches that were pending when a later parent value came
  settleOrder   \* ids of the promises in the order they settled

swVars == <<proms, subscribed, swOut, swErr, swDead, superseded, settleOrder>>

VARIABLES
  \* ---- optimisticContract stage (observables.ts:431-453)
  ocCached,     \* cachedData: localStorage.getItem(key) at construction
  ocStorage,    \* the value stored under the key
  ocSubscribed, \* the stage has been subscribed to
  ocLive,       \* the values the source has delivered
  ocOut,        \* the values delivered downstream
  ocWrites      \* the values written with localStorage.setItem

ocVars == <<ocCached, ocStorage, ocSubscribed, ocLive, ocOut, ocWrites>>

VARIABLES
  \* ---- distinctArrayItem stage (observables.ts:407-429)
  daCmp,        \* the comparator argument: "isEqual" (default) or "sameId"
  daInit,       \* the initialValue argument
  daAll,        \* acc.allEmissions of the scan
  daSubscribed, \* the stage has been subscribed to
  daIn,         \* the batches the source has delivered
  daOut         \* the arrays delivered downstream

daVars == <<daCmp, daInit, daAll, daSubscribed, daIn, daOut>>

VARIABLES
  \* ---- the pipeline (observables.ts:485-680)
  netVersion,    \* the value networkVersion$ emitted last (shareReplay(1))
  \* a fetch slot is <<>> or the tuple of arguments of the call in flight
  caFetch,       \* network of the fetchContractAddresses call in flight
  caLast,        \* the set contractAddresses$ emitted last: <<>> or <<set>>
  pCached,       \* per key: cachedData of its optimisticContract stage
  pStorage,      \* per key: the value in localStorage
  pLast,         \* per key: the value its optimisticContract stage emitted last
  settingsFetch, \* protection address of the settings-contract fetch in flight
  lpsFetch,      \* arguments of the fetchLiquidityProtectionSettings in flight
  storeFetch,    \* staking rewards address of the store() call in flight
  ppFetch,       \* store address of the fetchPoolPrograms call in flight
  authLast,      \* the value authenticated$ emitted last, as combineLatest holds it
  posFetch,      \* arguments of the fetchPositionIds call in flight
  emits,         \* the streams and stages that emitted in the last step
  calls,         \* the fetches issued in the last step
  cancels        \* the stages whose fetch in flight the last step unsubscribed

pipeVars == <<netVersion, caFetch, caLast, pCached, pStorage, pLast,
              settingsFetch, lpsFetch, storeFetch, ppFetch, authLast, posFetch,
              emits, calls, cancels>>

VARIABLES
  \* ---- the pure helpers (pureHelpers.ts)
  hCall,        \* the call: the helper's name and its arguments
  hDone,        \* the call has returned
  hResult       \* what it returned (<<>> until then)

helperVars == <<hCall, hDone, hResult>>

VARIABLES
  \* ---- networkVersion$ and the fetches keyed on it (observables.ts:488-531)
  nSent,        \* the values given to networkVersionReceiver$.next
  nOut,         \* the values networkVersion$ emitted (<<>> before subscription)
  nCaFetch,     \* network of the fetchContractAddresses call in flight
  nApiFetch,    \* network of the getWelcomeData call in flight
  nApiDead,     \* apiData$ ended with an error and has no subscriber
  nEmits,       \* the streams that emitted in the last step
  nCalls,       \* the fetches issued in the last step
  nCancels      \* the streams whose fetch in flight the last step unsubscribed

netVars == <<nSent, nOut, nCaFetch, nApiFetch, nApiDead, nEmits, nCalls,
             nCancels>>

VARIABLES
  \* ---- positionIds$ and rawPositions$ (observables.ts:657-678)
  uAuth,        \* the value authenticated$ emitted last, as combineLatest holds it
  uStore,       \* the address liquidityProtectionStore$ emitted last
  uIdsFetch,    \* <<user, store>> of the fetchPositionIds call in flight
  uIds,         \* <<ids>> positionIds$ emitted last (shareReplay(1)), or <<>>
  uRawFetch,    \* <<ids, store>> of the fetchPositionsMulti call in flight
  uRaw,         \* <<positions>> rawPositions$ emitted last, or <<>>
  uEmits,       \* the streams that emitted in the last step
  uCalls        \* the fetches issued in the last step

posVars == <<uAuth, uStore, uIdsFetch, uIds, uRawFetch, uRaw, uEmits, uCalls>>

VARIABLES
  \* ---- settingsContractAddress$ and the liquidity protection settings
  \* (observables.ts:605-645)
  sLp,            \* the address liquidityProtection$ emitted last
  sSettingsFetch, \* <<protection>> of the settings-contract fetch in flight
  sSettings,      \* the address settingsContractAddress$ emitted last
  sLpsFetch,      \* <<protection, settings>> of the settings fetch in flight
  sResolved,      \* <<protection, settings>>: the settings-contract fetch
                  \* for that protection address returned that address
  sHanded,        \* <<>> or <<pair>>: the pair whose settings were handed to
                  \* setLiquidityProtectionSettings last
  sCalls          \* the fetches issued in the last step

setVars == <<sLp, sSettingsFetch, sSettings, sLpsFetch, sResolved, sHanded,
             sCalls>>

VARIABLES
  \* ---- contractAddresses$ of the earlier revision, built with
  \* catchOptimisticNetwork (observables.ts:96-119, 161-177)
  kNet,         \* the network version emitted last
  kFetch,       \* network of the fetchContractAddresses call in flight
  kFetched,     \* the address sets the fetches resolved with
  kOut,         \* the address sets contractAddresses$ emitted
  kDone,        \* contractAddresses$ has completed
  kErr          \* contractAddresses$ has passed an error to its subscribers

oldVars == <<kNet, kFetch, kFetched, kOut, kDone, kErr>>

vars == <<swVars, ocVars, daVars, pipeVars, helperVars, netVars, posVars, setVars, oldVars>>

\* EthNetworks (./web3)
Networks == {"Mainnet", "Ropsten"}

\* the keys of the optimisticContract stages (observables.ts:551-610)
CaKeys == {"LiquidityProtection", "LiquidityProtectionStore", "StakingRewards"}
OcKeys == CaKeys \cup {"LiquiditySettings"}

PipeIdle ==
  /\ netVersion = "Mainnet"
  /\ caFetch = <<>>
  /\ caLast = <<>>
  /\ pCached = [k \in OcKeys |-> None]
  /\ pStorage = [k \in OcKeys |-> None]
  /\ pLast = [k \in OcKeys |-> None]
  /\ settingsFetch = <<>>
  /\ lpsFetch = <<>>
  /\ storeFetch = <<>>
  /\ ppFetch = <<>>
  /\ authLast = None
  /\ posFetch = <<>>
  /\ emits = {}
  /\ calls = {}
  /\ cancels = {}

NetIdle ==
  /\ nSent = <<>>
  /\ nOut = <<>>
  /\ nCaFetch = <<>>
  /\ nApiFetch = <<>>
  /\ nApiDead = FALSE
  /\ nEmits = {}
  /\ nCalls = {}
  /\ nCancels = {}

PosIdle ==
  /\ uAuth = None
  /\ uStore = None
  /\ uIdsFetch = <<>>
  /\ uIds = <<>>
  /\ uRawFetch = <<>>
  /\ uRaw = <<>>
  /\ uEmits = {}
  /\ uCalls = {}

SetIdle ==
  /\ sLp = None
  /\ sSettingsFetch = <<>>
  /\ sSettings = None
  /\ sLpsFetch = <<>>
  /\ sResolved = {}
  /\ sHanded = <<>>
  /\ sCalls = {}

OldIdle ==
  /\ kNet = "Mainnet"
  /\ kFetch = <<>>
  /\ kFetched = <<>>
  /\ kOut = <<>>
  /\ kDone = FALSE
  /\ kErr = FALSE

HelpersIdle ==
  /\ hCall = [fn |-> None]
  /\ hDone = FALSE
  /\ hResult = <<>>

DaIdle ==
  /\ daCmp = "isEqual"
  /\ daInit = <<>>
  /\ daAll = <<>>
  /\ daSubscribed = FALSE
  /\ daIn = <<>>
  /\ daOut = <<>>

SwIdle ==
  /\ proms = <<>>
  /\ subscribed = {}
  /\ swOut = <<>>
  /\ swErr = FALSE
  /\ swDead = FALSE
  /\ superseded = {}
  /\ settleOrder = <<>>

OcIdle ==
  /\ ocCached = None
  /\ ocStorage = None
  /\ ocSubscribed = FALSE
  /\ ocLive = <<>>
  /\ ocOut = <<>>
  /\ ocWrites = <<>>

Last(s) == s[Len(s)]

(***************************************************************************)
(* switchMapIgnoreThrow                                                    *)
(***************************************************************************)

\* mergeMap instead of switchMap: earlier inner subscriptions are kept
MergeInner(subs, id) == subs \cup {id}

\* switchMap (observables.ts:459): subscribing to the inner observable of a
\* new outer value unsubscribes from the previous inner observable
SwitchInner(subs, id) == {id}

\* no .catch on the promise: a rejection stays a rejection
NoCatch(outcome) == outcome

\* switchMapProm(whatever).catch(() => "DONT THROW")  (observables.ts:460)
CatchDontThrow(outcome) ==
  IF outcome.status = "rejected"
    THEN [status |-> "resolved", val |-> DontThrow]
    ELSE outcome

\* filter(x => !(typeof x == "string" && x === "DONT THROW"))  (:462)
\* (the fetches of this file resolve with addresses and records, Addr here)
PassesFilter(x) == x # DontThrow

SwOthers == <<ocVars, daVars, pipeVars, helperVars, netVars, posVars, setVars, oldVars>>

PendingIds == {i \in 1..Len(proms) : proms[i].status = "pending"}

\* The source emits v: switchMap calls switchMapProm(v) and switches to it.
SwSourceNext(v) ==
  /\ ~swDead
  /\ Len(proms) < MaxFetch
  /\ proms' = Append(proms, [arg |-> v, status |-> "pending", val |-> None])
  /\ subscribed' = SwitchInner(subscribed, Len(proms) + 1)
  /\ superseded' = superseded \cup PendingIds
  /\ UNCHANGED <<swOut, swErr, swDead, settleOrder>>
  /\ UNCHANGED SwOthers

\* The promise `id` settles with `outcome`; the .catch handler and then the
\* subscriber of the inner observable (if any is left) run.
SwSettle(id, outcome) ==
  LET o == CatchDontThrow(outcome) IN
  /\ proms[id].status = "pending"
  /\ proms' = [proms EXCEPT ![id] = [arg |-> proms[id].arg,
                                     status |-> outcome.status,
                                     val |-> outcome.val]]
  /\ settleOrder' = Append(settleOrder, id)
  /\ subscribed' = subscribed \ {id}
  /\ UNCHANGED superseded
  /\ UNCHANGED SwOthers
  /\ IF id \in subscribed /\ ~swDead
       THEN IF o.status = "rejected"
              THEN \* the inner error is forwarded; the stage terminates
                   /\ swErr' = TRUE
                   /\ swDead' = TRUE
                   /\ swOut' = swOut
              ELSE /\ swOut' = IF PassesFilter(o.val)
                                 THEN Append(swOut, [id |-> id, val |-> o.val])
                                 ELSE swOut
                   /\ UNCHANGED <<swErr, swDead>>
       ELSE UNCHANGED <<swOut, swErr, swDead>>

SwResolve ==
  \E id \in 1..Len(proms), y \in Addr :
    SwSettle(id, [status |-> "resolved", val |-> y])

SwReject ==
  \E id \in 1..Len(proms) :
    SwSettle(id, [status |-> "rejected", val |-> None])

SwParent == \E v \in Parents : SwSourceNext(v)

SwInit ==
  /\ SwIdle
  /\ OcIdle
  /\ DaIdle
  /\ PipeIdle
  /\ HelpersIdle
  /\ NetIdle
  /\ PosIdle
  /\ SetIdle
  /\ OldIdle

SwNext == SwParent \/ SwResolve \/ SwReject

SpecSwitch == SwInit /\ [][SwNext]_vars

SwSettled(id) == id \in 1..Len(proms) /\ proms[id].status # "pending"

\* position of id in settleOrder (0 when it has not settled)
SettledAt(id) ==
  IF \E k \in 1..Len(settleOrder) : settleOrder[k] = id
    THEN CHOOSE k \in 1..Len(settleOrder) : settleOrder[k] = id
    ELSE 0

\* C1: the result of a fetch that was still pending when a later parent
\* value arrived is never emitted downstream by switchMapIgnoreThrow,
\* whatever the order in which the fetches complete.
C1_SupersededNeverEmitted ==
  \A i \in 1..Len(swOut) : swOut[i].id \notin superseded

\* a superseded fetch resolved after the fetch that superseded it had
\* resolved and been emitted
C1_Witness ==
  \E a \in superseded, b \in 1..Len(proms) :
    /\ a < b
    /\ proms[a].status = "resolved"
    /\ proms[b].status = "resolved"
    /\ SettledAt(b) < SettledAt(a)
    /\ \E i \in 1..Len(swOut) : swOut[i].id = b

\* C2: a rejected fetch produces neither an emission nor an error
\* downstream and does not end the stage: the emissions stay as they were,
\* every later parent value starts a fetch the stage is subscribed to, and
\* the successful result of the fetch in progress is emitted.
C2_RejectionAbsorbed ==
  /\ [](~swErr /\ ~swDead)
  /\ [][ /\ \A id \in 1..Len(proms) :
             /\ (proms[id].status = "pending" /\ proms'[id].status = "rejected")
                   => swOut' = swOut
             /\ (id \in subscribed /\ proms[id].status = "pending"
                   /\ proms'[id].status = "resolved")
                   => swOut' = Append(swOut, [id |-> id, val |-> proms'[id].val])
          /\ Len(proms') > Len(proms) => Len(proms') \in subscribed'
        ]_vars

\* a fetch was rejected while the stage was waiting for it, and the fetch
\* of a later parent value has resolved and been emitted
C2_Witness ==
  \E r \in 1..Len(proms), s \in 1..Len(proms) :
    /\ r < s
    /\ proms[r].status = "rejected"
    /\ r \notin superseded
    /\ \E i \in 1..Len(swOut) : swOut[i].id = s

(***************************************************************************)
(* optimisticContract                                                      *)
(***************************************************************************)

\* compareString of @/api/helpers: string equality
compareString(a, b) == a = b

\* no duplicate suppression at all
DistinctNever(last, v) == TRUE

\* distinctUntilChanged(compareString) (observables.ts:439, 449): a value
\* passes when nothing was let through yet or it differs from the value let
\* through last
DistinctUntilChanged(last, v) == last = None \/ ~compareString(last, v)

\* a tap that stores every value it sees
TapWritesAlways(cached, data) == TRUE

\* the tap of the two branches (observables.ts:440-445, 450): with cached
\* data the value is stored unless it is the cached one, without it always
TapWrites(cached, data) ==
  IF cached # None
    THEN LET isSame == cached = data IN ~isSame
    ELSE TRUE

OcOthers == <<swVars, daVars, pipeVars, helperVars, netVars, posVars, setVars, oldVars>>

\* what a value that reaches distinctUntilChanged causes
OcDeliver(out, writes, storage, v) ==
  LET last == IF out = <<>> THEN None ELSE Last(out) IN
  IF DistinctUntilChanged(last, v)
    THEN [out |-> Append(out, v),
          writes |-> IF TapWrites(ocCached, v) THEN Append(writes, v) ELSE writes,
          storage |-> IF TapWrites(ocCached, v) THEN v ELSE storage]
    ELSE [out |-> out, writes |-> writes, storage |-> storage]

\* subscription: startWith(cachedData) delivers the cached value first
OcSubscribe ==
  /\ ~ocSubscribed
  /\ ocSubscribed' = TRUE
  /\ LET r == IF ocCached # None
                THEN OcDeliver(ocOut, ocWrites, ocStorage, ocCached)
                ELSE [out |-> ocOut, writes |-> ocWrites, storage |-> ocStorage]
     IN /\ ocOut' = r.out
        /\ ocWrites' = r.writes
        /\ ocStorage' = r.storage
  /\ UNCHANGED <<ocCached, ocLive>>
  /\ UNCHANGED OcOthers

\* the source delivers the live value v
OcLiveValue ==
  \E v \in Addr :
    /\ ocSubscribed
    /\ Len(ocLive) < MaxLive
    /\ ocLive' = Append(ocLive, v)
    /\ LET r == OcDeliver(ocOut, ocWrites, ocStorage, v)
       IN /\ ocOut' = r.out
          /\ ocWrites' = r.writes
          /\ ocStorage' = r.storage
    /\ UNCHANGED <<ocCached, ocSubscribed>>
    /\ UNCHANGED OcOthers

\* after construction: the key holds a value or nothing, cachedData is it
OcInit ==
  /\ SwIdle
  /\ DaIdle
  /\ PipeIdle
  /\ HelpersIdle
  /\ NetIdle
  /\ PosIdle
  /\ SetIdle
  /\ OldIdle
  /\ ocCached \in Addr \cup {None}
  /\ ocStorage = ocCached
  /\ ocSubscribed = FALSE
  /\ ocLive = <<>>
  /\ ocOut = <<>>
  /\ ocWrites = <<>>

OcNext == OcSubscribe \/ OcLiveValue

SpecOptimistic == OcInit /\ [][OcNext]_vars

\* every live value delivered so far equals the cached one
OnlyCachedSoFar == \A i \in 1..Len(ocLive) : compareString(ocLive[i], ocCached)

\* C3: with a persisted value, optimisticContract emits it first, before
\* any live value and without a write; a live value equal to it is neither
\* emitted nor written; the first live value that differs is emitted once
\* and written once.
C3_CachedFirstThenFirstChange ==
  [][ ocCached # None =>
        /\ (~ocSubscribed /\ ocSubscribed')
              => /\ ocOut' = <<ocCached>>
                 /\ ocWrites' = <<>>
                 /\ ocStorage' = ocCached
                 /\ ocLive' = <<>>
        /\ (Len(ocLive') = Len(ocLive) + 1 /\ OnlyCachedSoFar)
              => IF compareString(Last(ocLive'), ocCached)
                   THEN /\ ocOut' = <<ocCached>>
                        /\ ocWrites' = <<>>
                        /\ ocStorage' = ocCached
                   ELSE /\ ocOut' = <<ocCached, Last(ocLive')>>
                        /\ ocWrites' = <<Last(ocLive')>>
                        /\ ocStorage' = Last(ocLive')
    ]_vars

\* persisted "0xA", live "0xA" then "0xB": emissions "0xA", "0xB" and the
\* single write "0xB"
C3_Witness ==
  /\ ocCached = "0xA"
  /\ ocLive = <<"0xA", "0xB">>
  /\ ocOut = <<"0xA", "0xB">>
  /\ ocWrites = <<"0xB">>
  /\ ocStorage = "0xB"

\* C4: optimisticContract writes exactly once for each emission other than
\* the cache-hit replay, so that after every emission the stored value is
\* the value emitted last.
C4_StorageIsLastEmitted ==
  ocOut # <<>> =>
    /\ ocStorage = Last(ocOut)
    /\ Len(ocWrites) = Len(ocOut) - (IF ocCached # None THEN 1 ELSE 0)

NoRepeat(s) == \A i, j \in 1..Len(s) : i # j => ~compareString(s[i], s[j])

\* C5 as stated: each distinct value is emitted at most once over the
\* lifetime of the subscription.
C5_EachValueAtMostOnce == NoRepeat(ocOut)

\* C5: optimisticContract never emits a value equal to the value it emitted
\* immediately before; a value that was replaced by another is emitted
\* again when the live stream returns to it.
C5_NoConsecutiveRepeat ==
  /\ \A i \in 1..(Len(ocOut) - 1) : ~compareString(ocOut[i], ocOut[i + 1])
  /\ (ocLive # <<>> /\ ocOut # <<>>) => compareString(Last(ocOut), Last(ocLive))

\* a repeated live value was suppressed, and the stream then returned to a
\* value emitted before, which was emitted again
C5_Witness ==
  /\ ocLive = <<"0xA", "0xA", "0xB", "0xA">>
  /\ ocOut = <<"0xA", "0xB", "0xA">>

(***************************************************************************)
(* distinctArrayItem                                                       *)
(***************************************************************************)

\* the elements of the batches: records with an identity and a payload
Items == {[id |-> 1, v |-> 1], [id |-> 2, v |-> 1], [id |-> 1, v |-> 2]}

RECURSIVE Flatten(_)
Flatten(ss) == IF ss = <<>> THEN <<>> ELSE Head(ss) \o Flatten(Tail(ss))

SeqsUpTo(S, n) == UNION {[1..k -> S] : k \in 0..n}

\* comparator || isEqual (observables.ts:417): lodash's deep equality by
\* default, else the caller's comparator (here: same identity)
Equal(cmp, a, b) == IF cmp = "isEqual" THEN a = b ELSE a.id = b.id

\* a difference taken against nothing: every element is new
DifferenceAll(array, values, cmp) == array

\* lodash differenceWith(array, values, comparator): the elements of array,
\* in order, that the comparator matches with no element of values
RECURSIVE DifferenceWith(_, _, _)
DifferenceWith(array, values, cmp) ==
  IF array = <<>> THEN <<>>
  ELSE IF \E k \in 1..Len(values) : Equal(cmp, Head(array), values[k])
         THEN DifferenceWith(Tail(array), values, cmp)
         ELSE <<Head(array)>> \o DifferenceWith(Tail(array), values, cmp)

\* the accumulator function of the scan (observables.ts:413-423)
ScanStep(acc, item, cmp) ==
  LET difference == DifferenceWith(item, acc.allEmissions, cmp) IN
  [allEmissions |-> acc.allEmissions \o difference, newData |-> difference]

\* a filter that lets every scan result through
FilterNothing(dataCache) == TRUE

\* filter(dataCache => dataCache.newData.length > 0)  (observables.ts:426)
FilterNewData(dataCache) == Len(dataCache.newData) > 0

DaOthers == <<swVars, ocVars, pipeVars, helperVars, netVars, posVars, setVars, oldVars>>

\* subscription: startWith(initialValue) delivers the seed (:428)
DaSubscribe ==
  /\ ~daSubscribed
  /\ daSubscribed' = TRUE
  /\ daOut' = Append(daOut, daInit)
  /\ UNCHANGED <<daCmp, daInit, daAll, daIn>>
  /\ UNCHANGED DaOthers

\* the source delivers a batch: scan, filter, pluck("newData")
DaBatch ==
  \E item \in SeqsUpTo(Items, MaxElems - Len(Flatten(daIn))) :
    /\ daSubscribed
    /\ Len(daIn) < MaxBatches
    /\ daIn' = Append(daIn, item)
    /\ LET dataCache == ScanStep([allEmissions |-> daAll], item, daCmp) IN
         /\ daAll' = dataCache.allEmissions
         /\ daOut' = IF FilterNewData(dataCache)
                        THEN Append(daOut, dataCache.newData)
                        ELSE daOut
    /\ UNCHANGED <<daCmp, daInit, daSubscribed>>
    /\ UNCHANGED DaOthers

\* after construction: the scan's seed holds initialValue (:424)
DaInit ==
  /\ SwIdle
  /\ OcIdle
  /\ PipeIdle
  /\ HelpersIdle
  /\ NetIdle
  /\ PosIdle
  /\ SetIdle
  /\ OldIdle
  /\ daCmp \in {"isEqual", "sameId"}
  /\ daInit \in SeqsUpTo(Items, MaxInitLen)
  /\ daAll = daInit
  /\ daSubscribed = FALSE
  /\ daIn = <<>>
  /\ daOut = <<>>

DaNext == DaSubscribe \/ DaBatch

SpecAccumulator == DaInit /\ [][DaNext]_vars

\* the elements of item that match no element of all, in the order of item
NewIn(item, all, cmp) ==
  SelectSeq(item, LAMBDA x : \A k \in 1..Len(all) : ~Equal(cmp, x, all[k]))

ItemA == [id |-> 1, v |-> 1]
ItemB == [id |-> 2, v |-> 1]
ItemC == [id |-> 1, v |-> 2]

\* C6: each emission of distinctArrayItem after the seed is exactly the
\* elements of the incoming batch that match no element accumulated so
\* far, in batch order, and allEmissions changes only by appending them.
C6_EmitsExactlyTheNew ==
  [][ Len(daIn') = Len(daIn) + 1 =>
        LET delta == NewIn(Last(daIn'), daAll, daCmp) IN
        /\ daAll' = daAll \o delta
        /\ daOut' # daOut => daOut' = Append(daOut, delta)
        /\ delta # <<>> => daOut' # daOut
    ]_vars

\* fed [a,b] then [a,b,c] it has emitted [a,b] then only [c]
C6_Witness ==
  /\ daCmp = "isEqual"
  /\ daInit = <<>>
  /\ daIn = << <<ItemA, ItemB>>, <<ItemA, ItemB, ItemC>> >>
  /\ daOut = << <<>>, <<ItemA, ItemB>>, <<ItemC>> >>
  /\ daAll = <<ItemA, ItemB, ItemC>>

\* C7: the seed initialValue is the first emission, made once on
\* subscription (also when empty); afterwards a batch without a new
\* element causes no emission and leaves allEmissions unchanged.
C7_SeedOnceAndNoEmptyDelta ==
  /\ [](daSubscribed =>
          /\ Len(daOut) >= 1
          /\ daOut[1] = daInit
          /\ \A i \in 2..Len(daOut) : daOut[i] # <<>> /\ daOut[i] # daInit)
  /\ [](~daSubscribed => daOut = <<>>)
  /\ [][ /\ (~daSubscribed /\ daSubscribed') => daOut' = <<daInit>>
         /\ (Len(daIn') = Len(daIn) + 1
               /\ NewIn(Last(daIn'), daAll, daCmp) = <<>>)
              => (daOut' = daOut /\ daAll' = daAll)
       ]_vars

\* an empty seed was emitted, and a repeated non-empty batch was not
C7_Witness ==
  /\ daInit = <<>>
  /\ daIn = << <<ItemA>>, <<ItemA>> >>
  /\ daOut = << <<>>, <<ItemA>> >>

NoTwoEqual(s, cmp) ==
  \A i, j \in 1..Len(s) : i # j => ~Equal(cmp, s[i], s[j])

\* C8: every element is delivered exactly once: no two elements emitted
\* (seed included) are equal under the comparator, and allEmissions never
\* holds two equal elements.
C8_EachElementOnce ==
  /\ NoTwoEqual(Flatten(daOut), daCmp)
  /\ NoTwoEqual(daAll, daCmp)

(***************************************************************************)
(* The pipeline: networkVersion$ -> contractAddresses$ -> the address      *)
(* streams -> the fetches keyed on them.  A step is one run of the event   *)
(* loop: an input or a settled promise, with everything it triggers        *)
(* synchronously down the chain.  A fetch whose inner subscription         *)
(* switchMap has dropped has no subscriber left and is not kept.           *)
(* The streams modelled are those of the chain; the other consumers of     *)
(* networkVersion$ and settingsContractAddress$ (apiData$, tokenMeta$,     *)
(* fetchMinLiqForMinting, fetchWhiteListedV1Pools, locked balances) read   *)
(* the chain and write nothing back into it.                               *)
(***************************************************************************)

\* the contract address sets the registry may deliver (RegisteredContracts)
AddrSetList ==
  << [LiquidityProtection |-> "0xA", LiquidityProtectionStore |-> "0xA",
      StakingRewards |-> "0xA"],
     [LiquidityProtection |-> "0xB", LiquidityProtectionStore |-> "0xB",
      StakingRewards |-> "0xA"],
     [LiquidityProtection |-> "0xA", LiquidityProtectionStore |-> "0xB",
      StakingRewards |-> "0xB"],
     [LiquidityProtection |-> "0xB", LiquidityProtectionStore |-> "0xA",
      StakingRewards |-> "0xB"] >>
AddrSets == {AddrSetList[i] : i \in 1..NumSets}

\* authenticated$ carries a user address or the empty string
Users == {"", "0xU"}

Call(fn, args) == [fn |-> fn, args |-> args]

\* exhaustMap: a new outer value is ignored while a fetch is in flight
Exhaust(cur, arg) ==
  IF cur # <<>>
    THEN [fetch |-> cur, called |-> FALSE, cancelled |-> FALSE]
    ELSE [fetch |-> arg, called |-> TRUE, cancelled |-> FALSE]

\* switchMap inside switchMapIgnoreThrow (observables.ts:459): the fetch
\* for the new outer value is issued and the one in flight is unsubscribed
Switch(cur, arg) ==
  [fetch |-> arg, called |-> TRUE, cancelled |-> cur # <<>>]

\* a combination that fires as soon as one input has a value
CombineEither(a, b) == a # None \/ b # None

\* combineLatest (observables.ts:625, 657): fires once every input has a value
CombineReady(a, b) == a # None /\ b # None

\* one optimisticContract stage of the pipeline receives v
PassOc(k, v) == DistinctUntilChanged(pLast[k], v)

PipeOthers == <<swVars, ocVars, daVars, helperVars, netVars, posVars, setVars, oldVars>>

\* networkVersionReceiver$.next(n)  (observables.ts:490-494, 520-531)
PNetwork ==
  \E n \in Networks :
    LET pass == n # netVersion
        sw == Switch(caFetch, <<n>>)
    IN
    /\ netVersion' = IF pass THEN n ELSE netVersion
    /\ caFetch' = IF pass THEN sw.fetch ELSE caFetch
    /\ emits' = IF pass THEN {"networkVersion$"} ELSE {}
    /\ calls' = IF pass /\ sw.called
                  THEN {Call("fetchContractAddresses", <<n>>)} ELSE {}
    /\ cancels' = IF pass /\ sw.cancelled THEN {"contractAddresses$"} ELSE {}
    /\ UNCHANGED <<caLast, pCached, pStorage, pLast, settingsFetch, lpsFetch,
                   storeFetch, ppFetch, authLast, posFetch>>
    /\ UNCHANGED PipeOthers

\* authenticated$.next(u)  (observables.ts:485, 657-664)
PAuth ==
  \E u \in Users :
    LET store == pLast["LiquidityProtectionStore"]
        ready == CombineReady(u, store)
        sw == Switch(posFetch, <<u, store>>)
    IN
    /\ authLast' = u
    /\ posFetch' = IF ready THEN sw.fetch ELSE posFetch
    /\ emits' = {"authenticated$"}
    /\ calls' = IF ready /\ sw.called
                  THEN {Call("fetchPositionIds", <<u, store>>)} ELSE {}
    /\ cancels' = IF ready /\ sw.cancelled THEN {"positionIds$"} ELSE {}
    /\ UNCHANGED <<netVersion, caFetch, caLast, pCached, pStorage, pLast,
                   settingsFetch, lpsFetch, storeFetch, ppFetch>>
    /\ UNCHANGED PipeOthers

\* every fetched set is let through
DistinctOff(lastSet, S) == TRUE

\* distinctUntilChanged(isEqual) (observables.ts:538): a fetched set passes
\* when none was emitted yet or it is not structurally equal to the set
\* emitted last
DistinctIsEqual(lastSet, S) == lastSet # <<S>>

\* the promise of fetchContractAddresses resolves with the set S
\* (observables.ts:525-541, then 549-580, 605-613, 625-639, 657-664); the
\* set reaches the taps in front of distinctUntilChanged in every case
PCaResolve ==
  \E S \in AddrSets :
    LET emit == DistinctIsEqual(caLast, S)
        pass(k) == emit /\ PassOc(k, S[k])
        lp == S["LiquidityProtection"]
        st == S["LiquidityProtectionStore"]
        sr == S["StakingRewards"]
        passLp == pass("LiquidityProtection")
        passSt == pass("LiquidityProtectionStore")
        passSr == pass("StakingRewards")
        settings == pLast["LiquiditySettings"]
        swSettings == Switch(settingsFetch, <<lp>>)
        lpsReady == passLp /\ CombineReady(lp, settings)
        swLps == Switch(lpsFetch, <<lp, settings>>)
        swStore == Switch(storeFetch, <<sr>>)
        posReady == passSt /\ CombineReady(authLast, st)
        swPos == Switch(posFetch, <<authLast, st>>)
    IN
    /\ caFetch # <<>>
    /\ caFetch' = <<>>
    /\ caLast' = IF emit THEN <<S>> ELSE caLast
    /\ pLast' = [k \in OcKeys |->
                   IF k \in CaKeys /\ pass(k) THEN S[k] ELSE pLast[k]]
    /\ pStorage' = [k \in OcKeys |->
                      IF k \in CaKeys /\ pass(k) /\ TapWrites(pCached[k], S[k])
                        THEN S[k] ELSE pStorage[k]]
    /\ settingsFetch' = IF passLp THEN swSettings.fetch ELSE settingsFetch
    /\ lpsFetch' = IF lpsReady THEN swLps.fetch ELSE lpsFetch
    /\ storeFetch' = IF passSr THEN swStore.fetch ELSE storeFetch
    /\ posFetch' = IF posReady THEN swPos.fetch ELSE posFetch
    /\ emits' = {"fetchContractAddresses"}
                 \cup (IF emit THEN {"contractAddresses$"} ELSE {})
                 \cup (IF passLp THEN {"liquidityProtection$"} ELSE {})
                 \cup (IF passSt THEN {"liquidityProtectionStore$"} ELSE {})
                 \cup (IF passSr THEN {"stakingRewards$"} ELSE {})
    /\ calls' =
         (IF passLp /\ swSettings.called
            THEN {Call("fetchLiquidityProtectionSettingsContract", <<lp>>)}
            ELSE {})
         \cup (IF lpsReady /\ swLps.called
                 THEN {Call("fetchLiquidityProtectionSettings", <<lp, settings>>)}
                 ELSE {})
         \cup (IF passSr /\ swStore.called
                 THEN {Call("store", <<sr>>)} ELSE {})
         \cup (IF posReady /\ swPos.called
                 THEN {Call("fetchPositionIds", <<authLast, st>>)} ELSE {})
    /\ cancels' =
         (IF passLp /\ swSettings.cancelled
            THEN {"settingsContractAddress$"} ELSE {})
         \cup (IF lpsReady /\ swLps.cancelled
                 THEN {"liquidityProtectionSettings"} ELSE {})
         \cup (IF passSr /\ swStore.cancelled THEN {"storeRewards$"} ELSE {})
         \cup (IF posReady /\ swPos.cancelled THEN {"positionIds$"} ELSE {})
    /\ UNCHANGED <<netVersion, pCached, ppFetch, authLast>>
    /\ UNCHANGED PipeOthers

\* a step that emits nothing, issues nothing and cancels nothing
Quiet ==
  /\ emits' = {}
  /\ calls' = {}
  /\ cancels' = {}

\* fetchContractAddresses and its fallback both reject: the sentinel is
\* filtered (observables.ts:528-530, 460-462)
PCaReject ==
  /\ caFetch # <<>>
  /\ caFetch' = <<>>
  /\ Quiet
  /\ UNCHANGED <<netVersion, caLast, pCached, pStorage, pLast, settingsFetch,
                 lpsFetch, storeFetch, ppFetch, authLast, posFetch>>
  /\ UNCHANGED PipeOthers

\* fetchLiquidityProtectionSettingsContract resolves with the address a
\* (observables.ts:605-613, then 625-639)
PSettingsResolve ==
  \E a \in Addr :
    LET pass == PassOc("LiquiditySettings", a)
        lp == pLast["LiquidityProtection"]
        lpsReady == pass /\ CombineReady(lp, a)
        swLps == Switch(lpsFetch, <<lp, a>>)
    IN
    /\ settingsFetch # <<>>
    /\ settingsFetch' = <<>>
    /\ pLast' = IF pass THEN [pLast EXCEPT !["LiquiditySettings"] = a] ELSE pLast
    /\ pStorage' = IF pass /\ TapWrites(pCached["LiquiditySettings"], a)
                     THEN [pStorage EXCEPT !["LiquiditySettings"] = a]
                     ELSE pStorage
    /\ lpsFetch' = IF lpsReady THEN swLps.fetch ELSE lpsFetch
    /\ emits' = IF pass THEN {"settingsContractAddress$"} ELSE {}
    /\ calls' = IF lpsReady /\ swLps.called
                  THEN {Call("fetchLiquidityProtectionSettings", <<lp, a>>)}
                  ELSE {}
    /\ cancels' = IF lpsReady /\ swLps.cancelled
                    THEN {"liquidityProtectionSettings"} ELSE {}
    /\ UNCHANGED <<netVersion, caFetch, caLast, pCached, storeFetch, ppFetch,
                   authLast, posFetch>>
    /\ UNCHANGED PipeOthers

PSettingsReject ==
  /\ settingsFetch # <<>>
  /\ settingsFetch' = <<>>
  /\ Quiet
  /\ UNCHANGED <<netVersion, caFetch, caLast, pCached, pStorage, pLast,
                 lpsFetch, storeFetch, ppFetch, authLast, posFetch>>
  /\ UNCHANGED PipeOthers

\* fetchLiquidityProtectionSettings resolves: the subscriber hands the
\* settings to the store (observables.ts:642-645)
PLpsResolve ==
  /\ lpsFetch # <<>>
  /\ lpsFetch' = <<>>
  /\ emits' = {"liquidityProtectionSettings"}
  /\ calls' = {}
  /\ cancels' = {}
  /\ UNCHANGED <<netVersion, caFetch, caLast, pCached, pStorage, pLast,
                 settingsFetch, storeFetch, ppFetch, authLast, posFetch>>
  /\ UNCHANGED PipeOthers

\* fetchLiquidityProtectionSettings and its fallback both reject (:633-638)
PLpsReject ==
  /\ lpsFetch # <<>>
  /\ lpsFetch' = <<>>
  /\ Quiet
  /\ UNCHANGED <<netVersion, caFetch, caLast, pCached, pStorage, pLast,
                 settingsFetch, storeFetch, ppFetch, authLast,
                 posFetch>>
  /\ UNCHANGED PipeOthers

\* contract.methods.store().call() resolves with the address a
\* (observables.ts:555-568)
PStoreResolve ==
  \E a \in Addr :
    LET sw == Switch(ppFetch, <<a>>) IN
    /\ storeFetch # <<>>
    /\ storeFetch' = <<>>
    /\ ppFetch' = sw.fetch
    /\ emits' = {"storeRewards$"}
    /\ calls' = IF sw.called THEN {Call("fetchPoolPrograms", <<a>>)} ELSE {}
    /\ cancels' = IF sw.cancelled THEN {"poolPrograms$"} ELSE {}
    /\ UNCHANGED <<netVersion, caFetch, caLast, pCached, pStorage, pLast,
                   settingsFetch, lpsFetch, authLast, posFetch>>
    /\ UNCHANGED PipeOthers

PStoreReject ==
  /\ storeFetch # <<>>
  /\ storeFetch' = <<>>
  /\ Quiet
  /\ UNCHANGED <<netVersion, caFetch, caLast, pCached, pStorage, pLast,
                 settingsFetch, lpsFetch, ppFetch, authLast,
                 posFetch>>
  /\ UNCHANGED PipeOthers

\* vxm.rewards.fetchPoolPrograms settles, either way (observables.ts:563-568)
PPoolProgramsSettle ==
  \E ok \in BOOLEAN :
    /\ ppFetch # <<>>
    /\ ppFetch' = <<>>
    /\ emits' = IF ok THEN {"poolPrograms$"} ELSE {}
    /\ calls' = {}
    /\ cancels' = {}
    /\ UNCHANGED <<netVersion, caFetch, caLast, pCached, pStorage, pLast,
                   settingsFetch, lpsFetch, storeFetch, authLast,
                   posFetch>>
    /\ UNCHANGED PipeOthers

\* fetchPositionIds settles, either way (observables.ts:657-666)
PPositionIdsSettle ==
  \E ok \in BOOLEAN :
    /\ posFetch # <<>>
    /\ posFetch' = <<>>
    /\ emits' = IF ok THEN {"positionIds$"} ELSE {}
    /\ calls' = {}
    /\ cancels' = {}
    /\ UNCHANGED <<netVersion, caFetch, caLast, pCached, pStorage, pLast,
                   settingsFetch, lpsFetch, storeFetch, ppFetch,
                   authLast>>
    /\ UNCHANGED PipeOthers

\* what localStorage may hold when the module is loaded: nothing, or what
\* an earlier session stored for one contract address set
CachedStates ==
  {[k \in OcKeys |-> None]}
  \cup {[k \in OcKeys |-> IF k \in CaKeys THEN S[k] ELSE a] :
          S \in AddrSets, a \in Addr \cup {None}}

\* after the module is loaded: every stream is subscribed, the cached
\* values have been emitted by startWith and the fetches keyed on them and
\* on Mainnet are in flight (observables.ts:491, 582-680)
PipeInit ==
  /\ SwIdle
  /\ OcIdle
  /\ DaIdle
  /\ HelpersIdle
  /\ NetIdle
  /\ PosIdle
  /\ SetIdle
  /\ OldIdle
  /\ netVersion = "Mainnet"
  /\ caFetch = <<"Mainnet">>
  /\ caLast = <<>>
  /\ pCached \in CachedStates
  /\ pStorage = pCached
  /\ pLast = pCached
  /\ settingsFetch = IF pCached["LiquidityProtection"] # None
                       THEN <<pCached["LiquidityProtection"]>> ELSE <<>>
  /\ lpsFetch = IF CombineReady(pCached["LiquidityProtection"],
                                pCached["LiquiditySettings"])
                  THEN <<pCached["LiquidityProtection"],
                         pCached["LiquiditySettings"]>>
                  ELSE <<>>
  /\ storeFetch = IF pCached["StakingRewards"] # None
                    THEN <<pCached["StakingRewards"]>> ELSE <<>>
  /\ ppFetch = <<>>
  /\ authLast = None
  /\ posFetch = <<>>
  /\ emits = {}
  /\ calls = {}
  /\ cancels = {}

PipeNext ==
  \/ PNetwork
  \/ PAuth
  \/ PCaResolve
  \/ PCaReject
  \/ PSettingsResolve
  \/ PSettingsReject
  \/ PLpsResolve
  \/ PLpsReject
  \/ PStoreResolve
  \/ PStoreReject
  \/ PPoolProgramsSettle
  \/ PPositionIdsSettle

SpecPipeline == PipeInit /\ [][PipeNext]_vars

Store == pLast["LiquidityProtectionStore"]

CallsOf(fn) == {c \in calls : c.fn = fn}

DownstreamFns ==
  {"fetchLiquidityProtectionSettingsContract",
   "fetchLiquidityProtectionSettings", "store", "fetchPoolPrograms",
   "fetchPositionIds"}

\* C9 as stated: every change of the network version cancels the fetch in
\* flight of every stage of the chain and issues a new fetch for each.
C9_NetworkChangeRestartsAll ==
  "networkVersion$" \in emits =>
    /\ CallsOf("fetchContractAddresses") # {}
    /\ \A fn \in DownstreamFns : CallsOf(fn) # {}

\* what one step may issue and cancel, given what it emitted
RestartsFollowEmissions ==
  /\ "networkVersion$" \in emits =>
        /\ emits = {"networkVersion$"}
        /\ calls = {Call("fetchContractAddresses", <<netVersion>>)}
        /\ caFetch = <<netVersion>>
        /\ cancels \subseteq {"contractAddresses$"}
  /\ (CallsOf("fetchLiquidityProtectionSettingsContract") # {})
        <=> ("liquidityProtection$" \in emits)
  /\ CallsOf("fetchLiquidityProtectionSettingsContract")
        \subseteq {Call("fetchLiquidityProtectionSettingsContract",
                        settingsFetch)}
  /\ (CallsOf("store") # {}) <=> ("stakingRewards$" \in emits)
  /\ CallsOf("store") \subseteq {Call("store", storeFetch)}
  /\ (CallsOf("fetchPoolPrograms") # {}) <=> ("storeRewards$" \in emits)
  /\ CallsOf("fetchPoolPrograms") \subseteq {Call("fetchPoolPrograms", ppFetch)}
  /\ (CallsOf("fetchLiquidityProtectionSettings") # {})
        <=> (/\ {"liquidityProtection$", "settingsContractAddress$"}
                  \cap emits # {}
             /\ pLast["LiquidityProtection"] # None
             /\ pLast["LiquiditySettings"] # None)
  /\ CallsOf("fetchLiquidityProtectionSettings")
        \subseteq {Call("fetchLiquidityProtectionSettings", lpsFetch)}
  /\ "settingsContractAddress$" \in cancels
        => CallsOf("fetchLiquidityProtectionSettingsContract") # {}
  /\ "liquidityProtectionSettings" \in cancels
        => CallsOf("fetchLiquidityProtectionSettings") # {}
  /\ "storeRewards$" \in cancels => CallsOf("store") # {}
  /\ "poolPrograms$" \in cancels => CallsOf("fetchPoolPrograms") # {}
  /\ "positionIds$" \in cancels => CallsOf("fetchPositionIds") # {}

\* C9: a change of the network version cancels the fetch of contract
\* addresses in flight and issues a new one for the new network, and does
\* nothing else in that step; the fetch of a later stage is issued, and the
\* one in flight cancelled, exactly when the stream the stage is keyed on
\* emits.
C9_RestartPerEdge ==
  /\ []RestartsFollowEmissions
  /\ [][ netVersion' # netVersion =>
           (/\ caFetch # <<>> => "contractAddresses$" \in cancels'
            /\ caFetch' = <<netVersion'>>
            /\ UNCHANGED <<settingsFetch, lpsFetch, storeFetch, ppFetch,
                           posFetch>>)
       ]_vars

\* the network changed while fetches of contract addresses, of the
\* settings contract and of position ids were in flight: the first was
\* cancelled, the others are still in flight
C9_Witness ==
  /\ "networkVersion$" \in emits
  /\ "contractAddresses$" \in cancels
  /\ settingsFetch # <<>>
  /\ lpsFetch # <<>>
  /\ storeFetch # <<>>
  /\ posFetch # <<>>

\* C10: fetchPositionIds is not issued before both authenticated$ and
\* liquidityProtectionStore$ have emitted; once both have, it is issued in
\* every step in which either emits, with the user address and the store
\* address emitted last.
C10_PositionIdsCombineLatest ==
  /\ \A c \in CallsOf("fetchPositionIds") :
        /\ authLast # None
        /\ Store # None
        /\ c.args = <<authLast, Store>>
        /\ posFetch = c.args
  /\ ({"authenticated$", "liquidityProtectionStore$"} \cap emits # {}
        /\ authLast # None /\ Store # None)
       => Call("fetchPositionIds", <<authLast, Store>>) \in calls
  /\ (authLast = None \/ Store = None) => posFetch = <<>>

\* the store address changed while a user was known and a fetch of
\* position ids was in flight: a new fetch was issued for the new address
C10_Witness ==
  /\ "liquidityProtectionStore$" \in emits
  /\ "positionIds$" \in cancels
  /\ authLast = "0xU"
  /\ Call("fetchPositionIds", <<"0xU", Store>>) \in calls

\* C20: a fetched set of contract addresses structurally equal to the set
\* contractAddresses$ emitted last is not emitted again: in that step no
\* stream derived from it emits, no fetch is issued and no fetch in flight
\* is unsubscribed.
C20_EqualSetIsSilent ==
  [][("fetchContractAddresses" \in emits' /\ caLast' = caLast)
       => /\ emits' = {"fetchContractAddresses"}
          /\ calls' = {}
          /\ cancels' = {}
          /\ UNCHANGED <<pLast, pStorage, settingsFetch, lpsFetch, storeFetch,
                         ppFetch, posFetch>>]_vars

\* the registry delivered again the set emitted last while the fetches
\* keyed on its addresses were in flight: they stay in flight
C20_Witness ==
  /\ emits = {"fetchContractAddresses"}
  /\ caLast # <<>>
  /\ settingsFetch = <<caLast[1]["LiquidityProtection"]>>
  /\ storeFetch = <<caLast[1]["StakingRewards"]>>
  /\ posFetch # <<>>

(***************************************************************************)
(* The pure helpers of src/src/api/pureHelpers.ts.                         *)
(*                                                                         *)
(* Numbers.  A BigNumber or a JavaScript number is the fraction n/d in     *)
(* lowest terms with d > 0.  d = 0 is what a division by zero leaves:      *)
(* n = 0 is NaN, n = 1 Infinity, n = -1 -Infinity.  The inputs are drawn   *)
(* so that every quotient has a finite decimal expansion of fewer than 20  *)
(* places (BigNumber's DECIMAL_PLACES), where dividedBy is exact.          *)
(***************************************************************************)
MaxArrLen == 3      \* positions in the array given to groupPositionsArray
NumPositions == 6   \* distinct positions the array is drawn from

Abs(n) == IF n < 0 THEN -n ELSE n

Sign(n) == IF n < 0 THEN -1 ELSE IF n > 0 THEN 1 ELSE 0

RECURSIVE Gcd(_, _)
Gcd(a, b) == IF b = 0 THEN a ELSE Gcd(b, a % b)

Rat(n, d) ==
  IF d = 0
    THEN [n |-> Sign(n), d |-> 0]
    ELSE LET g == Gcd(Abs(n), Abs(d))
         IN [n |-> Sign(d) * (n \div g), d |-> Abs(d) \div g]

Num(n) == Rat(n, 1)

NaN == Rat(0, 0)

Infinity == Rat(1, 0)

IsFinite(a) == a.d # 0

Plus(a, b) ==
  IF ~IsFinite(a) /\ ~IsFinite(b) THEN (IF a = b THEN a ELSE NaN)
  ELSE IF ~IsFinite(a) THEN a
  ELSE IF ~IsFinite(b) THEN b
  ELSE Rat(a.n * b.d + b.n * a.d, a.d * b.d)

Minus(a, b) == Plus(a, [n |-> -b.n, d |-> b.d])

Times(a, b) == Rat(a.n * b.n, a.d * b.d)

\* a finite dividend over zero is Infinity or NaN, as in BigNumber and in
\* JavaScript's /
DividedBy(a, b) == Rat(a.n * b.d, a.d * b.n)

\* isGreaterThanOrEqualTo: the comparison that admits equality
IsGreaterThanOrEqualTo(a, b) == a.n * b.d >= b.n * a.d

\* isGreaterThan; false when either side is NaN
IsGreaterThan(a, b) == a.n * b.d > b.n * a.d

RECURSIVE SumSeq(_)
SumSeq(s) == IF s = <<>> THEN 0 ELSE Head(s) + SumSeq(Tail(s))

(***************************************************************************)
(* groupPositionsArray (pureHelpers.ts:36-148).                            *)
(***************************************************************************)
\* a ViewProtectedLiquidity with the fields groupPositionsArray reads
Position(id, poolId, symbol, amount, unixTime, fullyProtected, protectedAmount, fees, reward, insuranceStart, coverage, fullCoverage, bntTokenPrice, reserveTokenPrice) ==
  [id |-> id,
   stake |-> [amount |-> amount, poolId |-> poolId, symbol |-> symbol,
              unixTime |-> unixTime],
   fullyProtected |-> [amount |-> fullyProtected],
   protectedAmount |-> [amount |-> protectedAmount],
   fees |-> [amount |-> fees],
   pendingReserveReward |-> Num(reward),
   apr |-> [day |-> id],
   insuranceStart |-> insuranceStart,
   coverageDecPercent |-> coverage,
   fullCoverage |-> fullCoverage,
   bntTokenPrice |-> bntTokenPrice,
   reserveTokenPrice |-> reserveTokenPrice]

\* the positions the inputs are drawn from: two pools, two reserves, a
\* group of two BNT positions with different rewards, two TKN positions
\* with the same insuranceStart and stake time, two positions of no stake
PositionList ==
  << Position("1", "P1", "BNT", 100, 30, 110, 105, 3, 5, 20, 50, 120, 2, 2),
     Position("2", "P1", "BNT", 50, 10, 55, 52, 1, 2, 10, 80, 110, 2, 2),
     Position("3", "P1", "TKN", 40, 20, 44, 42, 2, 4, 10, 30, 110, 2, 4),
     Position("4", "P2", "TKN", 0, 40, 0, 0, 0, 0, 30, 10, 130, 2, 1),
     Position("5", "P1", "TKN", 10, 20, 12, 11, 0, 1, 10, 60, 115, 2, 4),
     Position("6", "P2", "TKN", 0, 50, 0, 0, 0, 3, 40, 0, 140, 2, 1),
     Position("7", "P2", "BNT", 20, 60, 22, 21, 1, 1, 5, 90, 105, 2, 2) >>

Positions == {PositionList[i] : i \in 1..NumPositions}

\* the arrays of at most n positions, no position twice
PositionArrays(n) ==
  UNION {{a \in [1..k -> Positions] :
            \A i, j \in 1..k : i < j => a[i] # a[j]} : k \in 0..n}

\* an id that leaves the symbol out
PoolOnlyId(poolId, symbol) == poolId

\* `${poolId}-${symbol}` (:48)
ItemId(poolId, symbol) == poolId \o "-" \o symbol

\* arr.filter(x => x.stake.poolId === poolId && x.stake.symbol === symbol)
Filtered(arr, poolId, symbol) ==
  SelectSeq(arr, LAMBDA x : x.stake.poolId = poolId /\ x.stake.symbol = symbol)

\* the comparison turned round
InsuranceEarlier(itemStart, valStart) == itemStart < valStart

\* item.insuranceStart > val.insuranceStart (:132)
InsuranceLater(itemStart, valStart) == itemStart > valStart

\* a group of one collapses too
CollapsesAlways(filtered) == Len(filtered) >= 1

\* filtered.length > 1 (:138)
Collapses(filtered) == Len(filtered) > 1

\* sort(...).desc(p => p.stake.unixTime): a stable sort, newest first
RECURSIVE InsertDesc(_, _)
InsertDesc(sorted, p) ==
  IF sorted = <<>> THEN <<p>>
  ELSE IF Head(sorted).stake.unixTime >= p.stake.unixTime
         THEN <<Head(sorted)>> \o InsertDesc(Tail(sorted), p)
         ELSE <<p>> \o sorted

RECURSIVE SortDesc(_)
SortDesc(s) ==
  IF s = <<>> THEN <<>>
  ELSE InsertDesc(SortDesc(SubSeq(s, 1, Len(s) - 1)), s[Len(s)])

\* the item built for the first position of a group met (:53-131)
NewItem(val, filtered) ==
  LET symbol == val.stake.symbol
      poolId == val.stake.poolId
      reward == val.pendingReserveReward
      sumStakeAmount ==
        SumSeq([i \in 1..Len(filtered) |-> filtered[i].stake.amount])
      sumFullyProtected ==
        SumSeq([i \in 1..Len(filtered) |-> filtered[i].fullyProtected.amount])
      sumProtectedAmount ==
        SumSeq([i \in 1..Len(filtered) |-> filtered[i].protectedAmount.amount])
      bntRewardUsd == Times(reward, Num(val.bntTokenPrice))
      rewardInReserve == DividedBy(bntRewardUsd, Num(val.reserveTokenPrice))
      sumFullyProtectedWithReward ==
        IF compareString(symbol, "BNT")
          THEN Plus(reward, Num(sumFullyProtected))
          ELSE Plus(rewardInReserve, Num(sumFullyProtected))
      sumProtectedWithReward ==
        IF compareString(symbol, "BNT")
          THEN Plus(reward, Num(sumProtectedAmount))
          ELSE Plus(rewardInReserve, Num(sumProtectedAmount))
      sumFees == SumSeq([i \in 1..Len(filtered) |-> filtered[i].fees.amount])
  IN [collapsedData |-> <<>>,
      id |-> ItemId(poolId, symbol),
      positionId |-> val.id,
      poolId |-> poolId,
      symbol |-> symbol,
      apr |-> val.apr,
      insuranceStart |-> val.insuranceStart,
      coverageDecPercent |-> val.coverageDecPercent,
      fullCoverage |-> val.fullCoverage,
      pendingReserveReward |-> reward,
      stake |-> [amount |-> sumStakeAmount,
                 usdValue |-> sumStakeAmount * val.reserveTokenPrice,
                 unixTime |-> val.stake.unixTime],
      fullyProtected |->
        [amount |-> sumFullyProtectedWithReward,
         usdValue |-> Times(sumFullyProtectedWithReward,
                            Num(val.reserveTokenPrice))],
      protectedAmount |->
        [amount |-> sumProtectedWithReward,
         usdValue |-> Times(sumProtectedWithReward,
                            Num(val.reserveTokenPrice))],
      roi |-> DividedBy(Minus(sumFullyProtectedWithReward, Num(sumStakeAmount)),
                        Num(sumStakeAmount)),
      fees |-> sumFees]

\* one call of the reducer (:45-145); obj maps an id to the item of acc
\* that has it, the same object, so obj.get(id) is a search of acc
Reducer(acc, arr, val) ==
  LET id == ItemId(val.stake.poolId, val.stake.symbol)
      filtered == Filtered(arr, val.stake.poolId, val.stake.symbol)
      found == {i \in 1..Len(acc) : acc[i].id = id}
      item == IF found = {} THEN NewItem(val, filtered)
                            ELSE acc[CHOOSE i \in found : TRUE]
      insured ==
        IF InsuranceLater(item.insuranceStart, val.insuranceStart)
          THEN [item EXCEPT !.insuranceStart = val.insuranceStart,
                            !.coverageDecPercent = val.coverageDecPercent,
                            !.fullCoverage = val.fullCoverage,
                            !.stake.unixTime = val.stake.unixTime]
          ELSE item
      collapsed ==
        IF Collapses(filtered)
          THEN [insured EXCEPT
                  !.collapsedData = SortDesc(Append(@, val))]
          ELSE insured
  IN IF found = {} THEN Append(acc, collapsed)
                   ELSE [acc EXCEPT ![CHOOSE i \in found : TRUE] = collapsed]

RECURSIVE Reduce(_, _, _)
Reduce(acc, arr, i) ==
  IF i > Len(arr) THEN acc ELSE Reduce(Reducer(acc, arr, arr[i]), arr, i + 1)

\* arr[0].pendingReserveReward (:40) throws on an empty array
groupPositionsArray(arr) ==
  IF arr = <<>>
    THEN [threw |-> "TypeError", value |-> <<>>]
    ELSE [threw |-> None, value |-> Reduce(<<>>, arr, 1)]

(***************************************************************************)
(* Decimal strings.  A string such as "12.50" is the record of its digits  *)
(* before and after the point; new BigNumber(string) is its value and      *)
(* toFixed writes a value back as a string.                                *)
(***************************************************************************)
MaxIntDigits == 1    \* digits before the point of expandToken's amount
MaxFracDigits == 2   \* digits after the point of expandToken's amount
MaxPrecision == 2    \* the precision given to expandToken
NumBalances == 4     \* distinct reserve balances

Numeral(int, frac) == [int |-> int, frac |-> frac]

RECURSIVE Pow10(_)
Pow10(k) == IF k = 0 THEN 1 ELSE 10 * Pow10(k - 1)

RECURSIVE DigitsValue(_)
DigitsValue(ds) ==
  IF ds = <<>> THEN 0
  ELSE 10 * DigitsValue(SubSeq(ds, 1, Len(ds) - 1)) + ds[Len(ds)]

\* the digits of n, exactly width of them
RECURSIVE PadDigits(_, _)
PadDigits(n, width) ==
  IF width = 0 THEN <<>>
  ELSE Append(PadDigits(n \div 10, width - 1), n % 10)

\* the digits of n without leading zeros, "0" for zero
RECURSIVE Digits(_)
Digits(n) == IF n < 10 THEN <<n>> ELSE Append(Digits(n \div 10), n % 10)

\* new BigNumber(string)
BigNumberOf(s) == Rat(DigitsValue(s.int \o s.frac), Pow10(Len(s.frac)))

\* BigNumber.toFixed(dp, rm) of a value that is not negative:
\* rm 1 (ROUND_DOWN) drops the digits beyond dp, the default rm
\* (ROUND_HALF_UP) rounds to the nearest, halves up
ToFixed(x, dp, rm) ==
  LET scaled == x.n * Pow10(dp)
      q == IF rm = "ROUND_DOWN"
             THEN scaled \div x.d
             ELSE (2 * scaled + x.d) \div (2 * x.d)
  IN Numeral(Digits(q \div Pow10(dp)), PadDigits(q % Pow10(dp), dp))

(***************************************************************************)
(* expandToken (pureHelpers.ts:197-203).                                   *)
(***************************************************************************)
\* the amount trimmed to the nearest instead of down
expandTokenHalfUp(amount, precision) ==
  LET trimmed == ToFixed(BigNumberOf(amount), precision, "ROUND_HALF_UP")
  IN ToFixed(Times(BigNumberOf(trimmed), Num(Pow10(precision))), 0,
             "ROUND_HALF_UP")

expandToken(amount, precision) ==
  LET trimmed == ToFixed(BigNumberOf(amount), precision, "ROUND_DOWN")
  IN ToFixed(Times(BigNumberOf(trimmed), Num(Pow10(precision))), 0,
             "ROUND_HALF_UP")

\* the digits the amounts are written with
DigitSet == {0, 4, 5, 9}

DigitSeqs(lo, hi) == UNION {[1..k -> DigitSet] : k \in lo..hi}

\* amounts that are not negative, written without needless leading zeros
Amounts ==
  {Numeral(i, f) : i \in {d \in DigitSeqs(1, MaxIntDigits) :
                            Len(d) = 1 \/ d[1] # 0},
                   f \in DigitSeqs(0, MaxFracDigits)}

(***************************************************************************)
(* calculatePriceDeviationTooHigh (pureHelpers.ts:212-239).                *)
(***************************************************************************)
oneMillion == 1000000

calculatePriceDeviationTooHigh(averageRate, primaryReserveBalance, secondaryReserveBalance, averageRateMaxDeviation) ==
  LET spotRate == DividedBy(primaryReserveBalance, secondaryReserveBalance)
      averageRateMaxDeviationBase ==
        Minus(Num(oneMillion), averageRateMaxDeviation)
      threshold == DividedBy(averageRate, spotRate)
      withinLowerThreshold ==
        IsGreaterThan(threshold,
                      DividedBy(averageRateMaxDeviationBase, Num(oneMillion)))
      withinHigherThreshold ==
        IsGreaterThan(DividedBy(Num(oneMillion), averageRateMaxDeviationBase),
                      threshold)
  IN ~(withinLowerThreshold /\ withinHigherThreshold)

\* reserve balances and rates whose quotients are finite decimals
BalanceList == <<1, 2, 4, 5, 8>>

Balances == {BalanceList[i] : i \in 1..NumBalances}

Rates == {Rat(a, b) : a, b \in Balances}

\* maximal deviations in parts per million, below 100%
Deviations == {0, 200000, 500000}

(***************************************************************************)
(* calculateLimits (pureHelpers.ts:305-328).                               *)
(***************************************************************************)
\* the limit without the buffer of 0.1%
calculateLimitsUnbuffered(poolLimitWei, defaultLimitWei, mintedWei, tknReserveBalance, bntReserveBalance) ==
  LET limitOrDefault ==
        BigNumberOf(IF poolLimitWei # Numeral(<<0>>, <<>>)
                      THEN poolLimitWei ELSE defaultLimitWei)
      tknDelta == Minus(limitOrDefault, BigNumberOf(mintedWei))
      bntRate == DividedBy(BigNumberOf(tknReserveBalance),
                           BigNumberOf(bntReserveBalance))
  IN [bntLimitWei |-> mintedWei,
      tknLimitWei |-> Times(bntRate, tknDelta)]

calculateLimits(poolLimitWei, defaultLimitWei, mintedWei, tknReserveBalance, bntReserveBalance) ==
  LET limitOrDefault ==
        BigNumberOf(IF poolLimitWei # Numeral(<<0>>, <<>>)
                      THEN poolLimitWei ELSE defaultLimitWei)
      tknDelta == Minus(limitOrDefault, BigNumberOf(mintedWei))
      bntRate == DividedBy(BigNumberOf(tknReserveBalance),
                           BigNumberOf(bntReserveBalance))
      buffer == DividedBy(BigNumberOf(Numeral(<<9, 9>>, <<9>>)),
                          BigNumberOf(Numeral(<<1, 0, 0>>, <<>>)))
  IN [bntLimitWei |-> mintedWei,
      tknLimitWei |-> Times(Times(bntRate, tknDelta), buffer)]

\* "0", "00", "0.0", "500", "1000"
PoolLimits ==
  {Numeral(<<0>>, <<>>), Numeral(<<0, 0>>, <<>>), Numeral(<<0>>, <<0>>),
   Numeral(<<5, 0, 0>>, <<>>), Numeral(<<1, 0, 0, 0>>, <<>>)}

\* "1000", "2000"
DefaultLimits == {Numeral(<<1, 0, 0, 0>>, <<>>), Numeral(<<2, 0, 0, 0>>, <<>>)}

\* "0", "200"
Minted == {Numeral(<<0>>, <<>>), Numeral(<<2, 0, 0>>, <<>>)}

WeiBalances == {Numeral(Digits(b), <<>>) : b \in Balances}

(***************************************************************************)
(* The specification of the pure helpers: a call is drawn, the helper      *)
(* returns.                                                                *)
(***************************************************************************)
HelperOthers == <<swVars, ocVars, daVars, pipeVars, netVars, posVars, setVars, oldVars>>

GroupCalls ==
  {[fn |-> "groupPositionsArray", arr |-> a] : a \in PositionArrays(MaxArrLen)}

HReturn(fn, result) ==
  /\ hCall.fn = fn
  /\ ~hDone
  /\ hDone' = TRUE
  /\ hResult' = result
  /\ UNCHANGED hCall
  /\ UNCHANGED HelperOthers

HGroupPositions ==
  /\ hCall.fn = "groupPositionsArray"
  /\ HReturn("groupPositionsArray", groupPositionsArray(hCall.arr))

ExpandCalls ==
  {[fn |-> "expandToken", amount |-> a, precision |-> p] :
     a \in Amounts, p \in 0..MaxPrecision}

HExpandToken ==
  /\ hCall.fn = "expandToken"
  /\ HReturn("expandToken", expandToken(hCall.amount, hCall.precision))

DeviationCalls ==
  {[fn |-> "calculatePriceDeviationTooHigh", averageRate |-> r,
    primaryReserveBalance |-> Num(p), secondaryReserveBalance |-> Num(s),
    averageRateMaxDeviation |-> Num(d)] :
     r \in Rates, p \in Balances, s \in Balances, d \in Deviations}

HPriceDeviation ==
  /\ hCall.fn = "calculatePriceDeviationTooHigh"
  /\ HReturn("calculatePriceDeviationTooHigh",
             calculatePriceDeviationTooHigh(hCall.averageRate,
                                            hCall.primaryReserveBalance,
                                            hCall.secondaryReserveBalance,
                                            hCall.averageRateMaxDeviation))

LimitCalls ==
  {[fn |-> "calculateLimits", poolLimitWei |-> l, defaultLimitWei |-> d,
    mintedWei |-> m, tknReserveBalance |-> t, bntReserveBalance |-> b] :
     l \in PoolLimits, d \in DefaultLimits, m \in Minted,
     t \in WeiBalances, b \in WeiBalances}

HCalculateLimits ==
  /\ hCall.fn = "calculateLimits"
  /\ HReturn("calculateLimits",
             calculateLimits(hCall.poolLimitWei, hCall.defaultLimitWei,
                             hCall.mintedWei, hCall.tknReserveBalance,
                             hCall.bntReserveBalance))

HelperCalls == GroupCalls \cup ExpandCalls \cup DeviationCalls \cup LimitCalls

HelpersInit ==
  /\ SwIdle
  /\ OcIdle
  /\ DaIdle
  /\ PipeIdle
  /\ NetIdle
  /\ PosIdle
  /\ SetIdle
  /\ OldIdle
  /\ hCall \in HelperCalls
  /\ hDone = FALSE
  /\ hResult = <<>>

HelpersNext ==
  \/ HGroupPositions
  \/ HExpandToken
  \/ HPriceDeviation
  \/ HCalculateLimits

SpecHelpers == HelpersInit /\ [][HelpersNext]_vars

\* ---- claims about groupPositionsArray

Grouped == hDone /\ hCall.fn = "groupPositionsArray" /\ hCall.arr # <<>>

\* the members of the group of a (poolId, symbol) pair, in input order
Members(arr, poolId, symbol) ==
  SelectSeq(arr, LAMBDA x : x.stake.poolId = poolId /\ x.stake.symbol = symbol)

Pairs(arr) ==
  {<<arr[i].stake.poolId, arr[i].stake.symbol>> : i \in 1..Len(arr)}

ItemsOf(out, pair) ==
  {i \in 1..Len(out) : out[i].poolId = pair[1] /\ out[i].symbol = pair[2]}

MembersOf(arr, item) == Members(arr, item.poolId, item.symbol)

\* C11: for a non-empty input the result has exactly one grouped position
\* for each distinct (poolId, symbol) pair of the input and no other, and
\* its stake.amount is the sum of the stake amounts of the positions of the
\* pair.
C11_OneGroupPerPairWithSummedStake ==
  Grouped =>
    /\ hResult.threw = None
    /\ Len(hResult.value) = Cardinality(Pairs(hCall.arr))
    /\ \A pair \in Pairs(hCall.arr) :
         /\ Cardinality(ItemsOf(hResult.value, pair)) = 1
         /\ \A i \in ItemsOf(hResult.value, pair) :
              LET members == Members(hCall.arr, pair[1], pair[2])
              IN hResult.value[i].stake.amount =
                   SumSeq([k \in 1..Len(members) |-> members[k].stake.amount])

\* three positions of two pairs, two of them of the same pair with stakes
\* 100 and 50: two grouped positions, one with stake 150
C11_Witness ==
  /\ Grouped
  /\ Len(hCall.arr) = 3
  /\ Len(hResult.value) = 2
  /\ \E i \in 1..2 :
       /\ hResult.value[i].id = "P1-BNT"
       /\ hResult.value[i].stake.amount = 150

RECURSIVE SumRewards(_)
SumRewards(members) ==
  IF members = <<>> THEN Num(0)
  ELSE Plus(Head(members).pendingReserveReward, SumRewards(Tail(members)))

\* C12: the fullyProtected.amount of a BNT group is the sum of the
\* members' fullyProtected amounts plus the sum of the pendingReserveReward
\* of every member.
C12_BntRewardOfEveryMember ==
  Grouped =>
    \A i \in 1..Len(hResult.value) :
      LET item == hResult.value[i]
          members == MembersOf(hCall.arr, item)
      IN item.symbol = "BNT" =>
           item.fullyProtected.amount =
             Plus(Num(SumSeq([k \in 1..Len(members) |->
                                members[k].fullyProtected.amount])),
                  SumRewards(members))

\* the fields of a grouped position the order of the input should not
\* change
Fields(item) ==
  [id |-> item.id,
   stake |-> item.stake.amount,
   fullyProtected |-> item.fullyProtected,
   protectedAmount |-> item.protectedAmount,
   roi |-> item.roi,
   fees |-> item.fees,
   insuranceStart |-> item.insuranceStart,
   coverageDecPercent |-> item.coverageDecPercent,
   fullCoverage |-> item.fullCoverage,
   collapsedData |-> item.collapsedData]

FieldsOf(out) == {Fields(out[i]) : i \in 1..Len(out)}

Reorderings(arr) ==
  {[i \in 1..Len(arr) |-> arr[f[i]]] :
     f \in {g \in [1..Len(arr) -> 1..Len(arr)] :
              \A i, j \in 1..Len(arr) : i # j => g[i] # g[j]}}

\* C13: every permutation of the input gives the same grouped positions
\* with the same field values.
C13_OrderIndependent ==
  Grouped =>
    \A perm \in Reorderings(hCall.arr) :
      FieldsOf(groupPositionsArray(perm).value) = FieldsOf(hResult.value)

\* C14: the insuranceStart of a grouped position is the least
\* insuranceStart of its members, and its coverageDecPercent and
\* fullCoverage are those of a member that has that insuranceStart.
C14_EarliestInsurance ==
  Grouped =>
    \A i \in 1..Len(hResult.value) :
      LET item == hResult.value[i]
          members == MembersOf(hCall.arr, item)
      IN /\ \A k \in 1..Len(members) :
              item.insuranceStart <= members[k].insuranceStart
         /\ \E k \in 1..Len(members) :
              /\ members[k].insuranceStart = item.insuranceStart
              /\ members[k].coverageDecPercent = item.coverageDecPercent
              /\ members[k].fullCoverage = item.fullCoverage

\* a group whose first member is not the earliest insured: the grouped
\* position took the start and the coverage of the later member of the array
C14_Witness ==
  /\ Grouped
  /\ Len(hCall.arr) >= 2
  /\ hCall.arr[1].id = "1"
  /\ hCall.arr[2].id = "2"
  /\ hResult.value[1].insuranceStart = 10
  /\ hResult.value[1].coverageDecPercent = 80
  /\ hResult.value[1].fullCoverage = 110

\* C15: collapsedData is empty for a group of one member; for a group of
\* more it holds every member once, newest stake first.
C15_CollapsedData ==
  Grouped =>
    \A i \in 1..Len(hResult.value) :
      LET item == hResult.value[i]
          members == MembersOf(hCall.arr, item)
          data == item.collapsedData
      IN /\ Len(members) = 1 => data = <<>>
         /\ Len(members) > 1 =>
              /\ Len(data) = Len(members)
              /\ \A k \in 1..Len(members) :
                   Cardinality({j \in 1..Len(data) : data[j] = members[k]}) = 1
              /\ \A j \in 1..(Len(data) - 1) :
                   data[j].stake.unixTime >= data[j + 1].stake.unixTime

\* a group of two given oldest stake first next to a group of one: the
\* two are listed newest first, the single one has no collapsedData
C15_Witness ==
  /\ Grouped
  /\ Len(hCall.arr) = 3
  /\ hCall.arr[1].id = "2"
  /\ hCall.arr[2].id = "4"
  /\ hCall.arr[3].id = "1"
  /\ Len(hResult.value) = 2
  /\ hResult.value[1].collapsedData = <<hCall.arr[3], hCall.arr[1]>>
  /\ hResult.value[2].collapsedData = <<>>

\* C16: the roi of a group whose summed stake is zero is never NaN nor
\* infinite (the division by zero is detected and reported otherwise).
C16_ZeroStakeRoiGuarded ==
  Grouped =>
    \A i \in 1..Len(hResult.value) :
      hResult.value[i].stake.amount = 0 => IsFinite(hResult.value[i].roi)

\* ---- claims about calculatePriceDeviationTooHigh

Deviated == hDone /\ hCall.fn = "calculatePriceDeviationTooHigh"

\* threshold = averageRate / (primary / secondary) strictly between
\* (1000000 - maxDeviation) / 1000000 and 1000000 / (1000000 - maxDeviation),
\* in whole numbers: every denominator is positive
WithinBounds(c) ==
  LET tn == c.averageRate.n * c.secondaryReserveBalance.n
      td == c.averageRate.d * c.primaryReserveBalance.n
      base == 1000000 - c.averageRateMaxDeviation.n
  IN /\ base * td < 1000000 * tn
     /\ tn * base < 1000000 * td

\* C17: the result is false exactly when the threshold lies strictly
\* between the two bounds; it is false when averageRate is the spot rate
\* and the maximal deviation is more than 0.
C17_FalseExactlyWithinStrictBounds ==
  Deviated =>
    /\ hResult = ~WithinBounds(hCall)
    /\ (/\ hCall.averageRate = DividedBy(hCall.primaryReserveBalance,
                                          hCall.secondaryReserveBalance)
        /\ hCall.averageRateMaxDeviation.n > 0) => hResult = FALSE

\* a threshold of exactly one half with a maximal deviation of 50%: on the
\* lower bound, not within it, the deviation is too high
C17_Witness ==
  /\ Deviated
  /\ hCall.averageRate = Num(1)
  /\ hCall.primaryReserveBalance = Num(2)
  /\ hCall.secondaryReserveBalance = Num(1)
  /\ hCall.averageRateMaxDeviation = Num(500000)
  /\ hResult = TRUE

\* ---- claims about calculateLimits

Limited == hDone /\ hCall.fn = "calculateLimits"

\* tknLimitWei for a given effective limit
TknLimitFor(limit, c) ==
  Rat((BigNumberOf(limit).n - BigNumberOf(c.mintedWei).n)
        * BigNumberOf(c.tknReserveBalance).n * 999,
      BigNumberOf(c.bntReserveBalance).n * BigNumberOf(limit).d * 1000)

\* C18: the effective limit is defaultLimitWei whenever poolLimitWei
\* denotes zero, however the zero is written, and poolLimitWei otherwise.
C18_DefaultForEveryZero ==
  Limited =>
    hResult.tknLimitWei =
      TknLimitFor(IF BigNumberOf(hCall.poolLimitWei) = Num(0)
                    THEN hCall.defaultLimitWei ELSE hCall.poolLimitWei,
                  hCall)

\* ---- claims about expandToken

Expanded == hDone /\ hCall.fn = "expandToken"

\* C19: for an amount x that is not negative expandToken(x, p) is the
\* integer string of floor(x * 10^p): the result over 10^p is at most x and
\* less than 10^-p below it.
C19_ExpandRoundsDown ==
  Expanded =>
    LET m == DigitsValue(hCall.amount.int \o hCall.amount.frac)
        e == Len(hCall.amount.frac)
        p == hCall.precision
        r == DigitsValue(hResult.int)
    IN /\ hResult.frac = <<>>
       /\ hResult.int = Digits(r)
       /\ r = (m * Pow10(p)) \div Pow10(e)
       /\ r * Pow10(e) <= m * Pow10(p)
       /\ m * Pow10(p) - r * Pow10(e) < Pow10(e)

\* "9.95" at precision 1 is "99", not "100"
C19_Witness ==
  /\ Expanded
  /\ hCall.amount = Numeral(<<9>>, <<9, 5>>)
  /\ hCall.precision = 1
  /\ hResult = Numeral(<<9, 9>>, <<>>)

\* C22: tknLimitWei is (effective limit - mintedWei) * (tknReserveBalance /
\* bntReserveBalance) * 0.999, the effective limit being the one
\* calculateLimits selects (defaultLimitWei for a poolLimitWei of "0"), and
\* bntLimitWei is mintedWei as it was given.
C22_HeadroomByRatioLessBuffer ==
  Limited =>
    /\ hResult.tknLimitWei =
         TknLimitFor(IF hCall.poolLimitWei = Numeral(<<0>>, <<>>)
                       THEN hCall.defaultLimitWei ELSE hCall.poolLimitWei,
                     hCall)
    /\ hResult.bntLimitWei = hCall.mintedWei

\* calculateLimits("500", "1000", "200", "2", "1"): 300 * 2 * 0.999 = 599.4
C22_Witness ==
  /\ Limited
  /\ hCall.poolLimitWei = Numeral(<<5, 0, 0>>, <<>>)
  /\ hCall.mintedWei = Numeral(<<2, 0, 0>>, <<>>)
  /\ hCall.tknReserveBalance = Numeral(<<2>>, <<>>)
  /\ hCall.bntReserveBalance = Numeral(<<1>>, <<>>)
  /\ hResult.tknLimitWei = Rat(5994, 10)
  /\ hResult.bntLimitWei = Numeral(<<2, 0, 0>>, <<>>)

\* C26: groupPositionsArray of an empty array returns an empty array and
\* raises no error.
C26_EmptyArrayGivesEmptyArray ==
  (hDone /\ hCall.fn = "groupPositionsArray" /\ hCall.arr = <<>>)
    => (hResult.threw = None /\ hResult.value = <<>>)

(***************************************************************************)
(* networkVersion$ and the two fetches switched on it: getWelcomeData of   *)
(* apiData$ and fetchContractAddresses of contractAddresses$               *)
(* (observables.ts:488-531).                                               *)
(***************************************************************************)
MaxSends == 3      \* values given to networkVersionReceiver$

NetOthers == <<swVars, ocVars, daVars, pipeVars, helperVars, posVars, setVars, oldVars>>

\* every value is let through
DistinctVersionOff(last, n) == TRUE

\* distinctUntilChanged() (observables.ts:492): a value passes when it is
\* not the value let through last
DistinctVersion(last, n) == n # last

\* the module is loaded: the streams are subscribed, startWith hands
\* Mainnet to distinctUntilChanged (observables.ts:491) and both switchMaps
\* issue their fetch
NSubscribe ==
  /\ nOut = <<>>
  /\ nOut' = <<"Mainnet">>
  /\ nCaFetch' = <<"Mainnet">>
  /\ nApiFetch' = <<"Mainnet">>
  /\ nEmits' = {"networkVersion$"}
  /\ nCalls' = {Call("fetchContractAddresses", <<"Mainnet">>),
                Call("getWelcomeData", <<"Mainnet">>)}
  /\ nCancels' = {}
  /\ UNCHANGED <<nSent, nApiDead>>
  /\ UNCHANGED NetOthers

\* networkVersionReceiver$.next(n) (observables.ts:490-499, 520-531)
NSend ==
  \E n \in Networks :
    LET pass == DistinctVersion(Last(nOut), n)
        swCa == Switch(nCaFetch, <<n>>)
        swApi == Switch(nApiFetch, <<n>>)
        api == pass /\ ~nApiDead
    IN
    /\ nOut # <<>>
    /\ Len(nSent) < MaxSends
    /\ nSent' = Append(nSent, n)
    /\ nOut' = IF pass THEN Append(nOut, n) ELSE nOut
    /\ nCaFetch' = IF pass THEN swCa.fetch ELSE nCaFetch
    /\ nApiFetch' = IF api THEN swApi.fetch ELSE nApiFetch
    /\ nEmits' = {"networkVersionReceiver$"}
                  \cup (IF pass THEN {"networkVersion$"} ELSE {})
    /\ nCalls' =
         (IF pass /\ swCa.called
            THEN {Call("fetchContractAddresses", <<n>>)} ELSE {})
         \cup (IF api /\ swApi.called
                 THEN {Call("getWelcomeData", <<n>>)} ELSE {})
    /\ nCancels' =
         (IF pass /\ swCa.cancelled THEN {"contractAddresses$"} ELSE {})
         \cup (IF api /\ swApi.cancelled THEN {"apiData$"} ELSE {})
    /\ UNCHANGED nApiDead
    /\ UNCHANGED NetOthers

NQuiet ==
  /\ nEmits' = {}
  /\ nCalls' = {}
  /\ nCancels' = {}

\* the promise of fetchContractAddresses settles; a rejection of it and of
\* its fallback is absorbed by switchMapIgnoreThrow (observables.ts:526-531)
NCaSettle ==
  /\ nCaFetch # <<>>
  /\ nCaFetch' = <<>>
  /\ NQuiet
  /\ UNCHANGED <<nSent, nOut, nApiFetch, nApiDead>>
  /\ UNCHANGED NetOthers

\* getWelcomeData resolves: apiData$ emits (observables.ts:496-499)
NApiResolve ==
  /\ nApiFetch # <<>>
  /\ nApiFetch' = <<>>
  /\ nEmits' = {"apiData$"}
  /\ nCalls' = {}
  /\ nCancels' = {}
  /\ UNCHANGED <<nSent, nOut, nCaFetch, nApiDead>>
  /\ UNCHANGED NetOthers

\* getWelcomeData rejects: the plain switchMap passes the error on, every
\* subscriber of apiData$ ends and share() leaves networkVersion$
\* (observables.ts:496-499)
NApiReject ==
  /\ nApiFetch # <<>>
  /\ nApiFetch' = <<>>
  /\ nApiDead' = TRUE
  /\ NQuiet
  /\ UNCHANGED <<nSent, nOut, nCaFetch>>
  /\ UNCHANGED NetOthers

\* a later subscriber of the exported apiData$: share() subscribes again,
\* shareReplay(1) hands it the current network version
NApiResubscribe ==
  /\ nApiDead
  /\ nApiDead' = FALSE
  /\ nApiFetch' = <<Last(nOut)>>
  /\ nEmits' = {}
  /\ nCalls' = {Call("getWelcomeData", <<Last(nOut)>>)}
  /\ nCancels' = {}
  /\ UNCHANGED <<nSent, nOut, nCaFetch>>
  /\ UNCHANGED NetOthers

NetInit ==
  /\ SwIdle
  /\ OcIdle
  /\ DaIdle
  /\ PipeIdle
  /\ HelpersIdle
  /\ NetIdle
  /\ PosIdle
  /\ SetIdle
  /\ OldIdle

NetNext ==
  \/ NSubscribe
  \/ NSend
  \/ NCaSettle
  \/ NApiResolve
  \/ NApiReject
  \/ NApiResubscribe

SpecNetwork == NetInit /\ [][NetNext]_vars

\* C21: the first value networkVersion$ emits is Mainnet, before anything
\* was given to networkVersionReceiver$; a value given to it that equals
\* the version emitted last is not emitted, and in that step no
\* fetchContractAddresses or getWelcomeData call is issued and none in
\* flight is unsubscribed.
C21_MainnetFirstAndDuplicatesSilent ==
  [][/\ (nOut = <<>> /\ nOut' # <<>>)
          => (nOut' = <<"Mainnet">> /\ nSent' = <<>>)
     /\ (nSent' # nSent /\ Last(nSent') = Last(nOut))
          => /\ nOut' = nOut
             /\ nCaFetch' = nCaFetch
             /\ nApiFetch' = nApiFetch
             /\ nCalls' = {}
             /\ nCancels' = {}]_vars

\* Ropsten was given a second time while both fetches for Ropsten were in
\* flight: they are still in flight
C21_Witness ==
  /\ nOut = <<"Mainnet", "Ropsten">>
  /\ nSent = <<"Ropsten", "Ropsten">>
  /\ nEmits = {"networkVersionReceiver$"}
  /\ nCaFetch = <<"Ropsten">>
  /\ nApiFetch = <<"Ropsten">>

(***************************************************************************)
(* positionIds$ and rawPositions$ (observables.ts:657-678), fed by         *)
(* authenticated$ and liquidityProtectionStore$.                           *)
(***************************************************************************)
PosOthers == <<swVars, ocVars, daVars, pipeVars, helperVars, netVars, setVars, oldVars>>

\* what fetchPositionIds(user, store) resolves with: the ids of the
\* positions of the user in that store
IdsOf(user, store) == [user |-> user, store |-> store]

\* what fetchPositionsMulti(ids, store) resolves with: the positions read
\* from that store under those ids
PositionsOf(ids, store) == [ids |-> ids, store |-> store]

\* authenticated$.next(u): the combineLatest of positionIds$ fires when the
\* store address is known (observables.ts:657-664)
UAuth ==
  \E u \in Users :
    LET ready == CombineReady(u, uStore)
        sw == Switch(uIdsFetch, <<u, uStore>>)
    IN
    /\ uAuth' = u
    /\ uIdsFetch' = IF ready THEN sw.fetch ELSE uIdsFetch
    /\ uEmits' = {"authenticated$"}
    /\ uCalls' = IF ready THEN {Call("fetchPositionIds", <<u, uStore>>)}
                          ELSE {}
    /\ UNCHANGED <<uStore, uIds, uRawFetch, uRaw>>
    /\ UNCHANGED PosOthers

\* liquidityProtectionStore$ emits a new address a (observables.ts:576-580):
\* the combineLatest of positionIds$ and the combineLatest of rawPositions$
\* both hold it as their latest store address and fire with the other
\* value they hold (observables.ts:657-664, 668-674)
UStore ==
  \E a \in Addr :
    LET idsReady == CombineReady(uAuth, a)
        swIds == Switch(uIdsFetch, <<uAuth, a>>)
        rawReady == uIds # <<>>
        swRaw == Switch(uRawFetch, <<uIds[1], a>>)
    IN
    /\ DistinctUntilChanged(uStore, a)
    /\ uStore' = a
    /\ uIdsFetch' = IF idsReady THEN swIds.fetch ELSE uIdsFetch
    /\ uRawFetch' = IF rawReady THEN swRaw.fetch ELSE uRawFetch
    /\ uEmits' = {"liquidityProtectionStore$"}
    /\ uCalls' =
         (IF idsReady THEN {Call("fetchPositionIds", <<uAuth, a>>)} ELSE {})
         \cup (IF rawReady
                 THEN {Call("fetchPositionsMulti", <<uIds[1], a>>)} ELSE {})
    /\ UNCHANGED <<uAuth, uIds, uRaw>>
    /\ UNCHANGED PosOthers

\* fetchPositionIds resolves: positionIds$ emits and the combineLatest of
\* rawPositions$ fires with the store address it holds
UIdsResolve ==
  /\ uIdsFetch # <<>>
  /\ LET ids == IdsOf(uIdsFetch[1], uIdsFetch[2])
         sw == Switch(uRawFetch, <<ids, uStore>>)
     IN /\ uIds' = <<ids>>
        /\ uRawFetch' = sw.fetch
        /\ uCalls' = {Call("fetchPositionsMulti", <<ids, uStore>>)}
  /\ uIdsFetch' = <<>>
  /\ uEmits' = {"positionIds$"}
  /\ UNCHANGED <<uAuth, uStore, uRaw>>
  /\ UNCHANGED PosOthers

\* fetchPositionIds rejects: absorbed by switchMapIgnoreThrow
UIdsReject ==
  /\ uIdsFetch # <<>>
  /\ uIdsFetch' = <<>>
  /\ uEmits' = {}
  /\ uCalls' = {}
  /\ UNCHANGED <<uAuth, uStore, uIds, uRawFetch, uRaw>>
  /\ UNCHANGED PosOthers

\* fetchPositionsMulti resolves: rawPositions$ emits
URawResolve ==
  /\ uRawFetch # <<>>
  /\ uRaw' = <<PositionsOf(uRawFetch[1], uRawFetch[2])>>
  /\ uRawFetch' = <<>>
  /\ uEmits' = {"rawPositions$"}
  /\ uCalls' = {}
  /\ UNCHANGED <<uAuth, uStore, uIdsFetch, uIds>>
  /\ UNCHANGED PosOthers

\* fetchPositionsMulti rejects: absorbed by switchMapIgnoreThrow
URawReject ==
  /\ uRawFetch # <<>>
  /\ uRawFetch' = <<>>
  /\ uEmits' = {}
  /\ uCalls' = {}
  /\ UNCHANGED <<uAuth, uStore, uIdsFetch, uIds, uRaw>>
  /\ UNCHANGED PosOthers

\* after the module is loaded: the store address persisted by
\* optimisticContract, if any, was emitted by startWith; no user yet
PosInit ==
  /\ SwIdle
  /\ OcIdle
  /\ DaIdle
  /\ PipeIdle
  /\ HelpersIdle
  /\ NetIdle
  /\ SetIdle
  /\ OldIdle
  /\ uAuth = None
  /\ uStore \in Addr \cup {None}
  /\ uIdsFetch = <<>>
  /\ uIds = <<>>
  /\ uRawFetch = <<>>
  /\ uRaw = <<>>
  /\ uEmits = {}
  /\ uCalls = {}

PosNext ==
  \/ UAuth
  \/ UStore
  \/ UIdsResolve
  \/ UIdsReject
  \/ URawResolve
  \/ URawReject

SpecPositions == PosInit /\ [][PosNext]_vars

\* C23: every fetchPositionsMulti call has ids that fetchPositionIds
\* returned for the store address of the call, and rawPositions$ never
\* emits positions read from one store under the ids of another.
C23_IdsOfTheSameStore ==
  /\ \A c \in uCalls :
       c.fn = "fetchPositionsMulti" => c.args[1].store = c.args[2]
  /\ uRaw # <<>> => uRaw[1].ids.store = uRaw[1].store

(***************************************************************************)
(* settingsContractAddress$ and the subscription that fetches the          *)
(* liquidity protection settings (observables.ts:605-645), fed by          *)
(* liquidityProtection$.                                                   *)
(***************************************************************************)
SetOthers == <<swVars, ocVars, daVars, pipeVars, helperVars, netVars, posVars, oldVars>>

\* liquidityProtection$ emits a new address a (observables.ts:570-574):
\* settingsContractAddress$ switches to a fetch for a (605-609) and the
\* combineLatest fires with the settings address it holds (625-631)
SProtection ==
  \E a \in Addr :
    LET swSettings == Switch(sSettingsFetch, <<a>>)
        ready == CombineReady(a, sSettings)
        swLps == Switch(sLpsFetch, <<a, sSettings>>)
    IN
    /\ DistinctUntilChanged(sLp, a)
    /\ sLp' = a
    /\ sSettingsFetch' = swSettings.fetch
    /\ sLpsFetch' = IF ready THEN swLps.fetch ELSE sLpsFetch
    /\ sCalls' =
         {Call("fetchLiquidityProtectionSettingsContract", <<a>>)}
         \cup (IF ready
                 THEN {Call("fetchLiquidityProtectionSettings",
                            <<a, sSettings>>)}
                 ELSE {})
    /\ UNCHANGED <<sSettings, sResolved, sHanded>>
    /\ UNCHANGED SetOthers

\* fetchLiquidityProtectionSettingsContract resolves with the address s:
\* optimisticContract lets it through when it differs from the address
\* emitted last (observables.ts:610) and the combineLatest fires (625-631)
SSettingsResolve ==
  \E s \in Addr :
    LET pass == DistinctUntilChanged(sSettings, s)
        swLps == Switch(sLpsFetch, <<sLp, s>>)
    IN
    /\ sSettingsFetch # <<>>
    /\ sSettingsFetch' = <<>>
    /\ sResolved' = sResolved \cup {<<sSettingsFetch[1], s>>}
    /\ sSettings' = IF pass THEN s ELSE sSettings
    /\ sLpsFetch' = IF pass THEN swLps.fetch ELSE sLpsFetch
    /\ sCalls' = IF pass
                   THEN {Call("fetchLiquidityProtectionSettings", <<sLp, s>>)}
                   ELSE {}
    /\ UNCHANGED <<sLp, sHanded>>
    /\ UNCHANGED SetOthers

\* the settings-contract fetch rejects: absorbed by switchMapIgnoreThrow
SSettingsReject ==
  /\ sSettingsFetch # <<>>
  /\ sSettingsFetch' = <<>>
  /\ sCalls' = {}
  /\ UNCHANGED <<sLp, sSettings, sLpsFetch, sResolved, sHanded>>
  /\ UNCHANGED SetOthers

\* fetchLiquidityProtectionSettings, or its fallback, resolves: the
\* subscriber hands the settings to setLiquidityProtectionSettings
\* (observables.ts:642-645)
SLpsResolve ==
  /\ sLpsFetch # <<>>
  /\ sLpsFetch' = <<>>
  /\ sHanded' = <<sLpsFetch>>
  /\ sCalls' = {}
  /\ UNCHANGED <<sLp, sSettingsFetch, sSettings, sResolved>>
  /\ UNCHANGED SetOthers

\* the fetch and its fallback both reject: absorbed
SLpsReject ==
  /\ sLpsFetch # <<>>
  /\ sLpsFetch' = <<>>
  /\ sCalls' = {}
  /\ UNCHANGED <<sLp, sSettingsFetch, sSettings, sResolved, sHanded>>
  /\ UNCHANGED SetOthers

\* after the module is loaded: the addresses persisted by the two
\* optimisticContract stages, if any, were emitted by startWith and the
\* fetches keyed on them are in flight; a persisted settings address is
\* taken to be the one resolved from the persisted protection address
SetInit ==
  /\ SwIdle
  /\ OcIdle
  /\ DaIdle
  /\ PipeIdle
  /\ HelpersIdle
  /\ NetIdle
  /\ PosIdle
  /\ OldIdle
  /\ sLp \in Addr \cup {None}
  /\ sSettings \in Addr \cup {None}
  /\ sSettingsFetch = IF sLp # None THEN <<sLp>> ELSE <<>>
  /\ sLpsFetch = IF CombineReady(sLp, sSettings)
                   THEN <<sLp, sSettings>> ELSE <<>>
  /\ sResolved = IF CombineReady(sLp, sSettings)
                   THEN {<<sLp, sSettings>>} ELSE {}
  /\ sHanded = <<>>
  /\ sCalls = {}

SetNext ==
  \/ SProtection
  \/ SSettingsResolve
  \/ SSettingsReject
  \/ SLpsResolve
  \/ SLpsReject

SpecSettings == SetInit /\ [][SetNext]_vars

\* C24: every fetchLiquidityProtectionSettings call has a settings
\* contract address that was resolved from the protection address of the
\* call, and setLiquidityProtectionSettings is never handed settings of a
\* pair that was not so resolved.
C24_SettingsOfTheSameProtection ==
  /\ \A c \in sCalls :
       c.fn = "fetchLiquidityProtectionSettings" => c.args \in sResolved
  /\ sHanded # <<>> => sHanded[1] \in sResolved

(***************************************************************************)
(* catchOptimisticNetwork and the contractAddresses$ built with it, of the *)
(* earlier revision of the file (observables.ts:96-119, 161-177).          *)
(***************************************************************************)
MaxOldFetch == 4   \* fetches of the earlier contractAddresses$ that resolve

OldOthers == <<swVars, ocVars, daVars, pipeVars, helperVars, netVars, posVars, setVars>>

\* the object given to startWith (observables.ts:169-175)
DefaultAddresses ==
  [LiquidityProtection |-> "0x9Ab934010E6f2D633FeEB5b6f1DdCeEdeD601BCF",
   LiquidityProtectionStore |-> "0xf5FAB5DBD2f3bf675dE4cB76517d4767013cfB55",
   StakingRewards |-> "0xB443DEA978B39178Cb05Ae005074227A4390DfCe"]

\* catchError(err => of(false)) (observables.ts:100-102; the statements
\* after the return are never run): the values of the source pass, an
\* error is replaced by the stream of(false), the value false and then
\* completion
CatchError(outcome) ==
  IF outcome.error
    THEN [values |-> <<FALSE>>, completes |-> TRUE]
    ELSE [values |-> <<outcome.value>>, completes |-> FALSE]

\* filter(x => false) (observables.ts:118): no value passes
FilterFalse(values) == SelectSeq(values, LAMBDA x : FALSE)

\* what catchOptimisticNetwork hands on for one notification of its source
catchOptimisticNetwork(outcome) ==
  LET caught == CatchError(outcome)
  IN [values |-> FilterFalse(caught.values), completes |-> caught.completes]

\* the values handed on go through startWith's stream to
\* distinctUntilChanged(isEqual) (observables.ts:176)
RECURSIVE EmitDistinct(_, _)
EmitDistinct(out, values) ==
  IF values = <<>> THEN out
  ELSE EmitDistinct(IF DistinctIsEqual(<<Last(out)>>, Head(values))
                      THEN Append(out, Head(values)) ELSE out,
                    Tail(values))

\* networkVersion$ emits n: switchMap unsubscribes from the fetch in flight
\* and calls fetchContractAddresses (observables.ts:162-164), unless the
\* stream has completed and left its source
KNetwork ==
  \E n \in Networks :
    /\ n # kNet
    /\ kNet' = n
    /\ kFetch' = IF kDone THEN <<>> ELSE <<n>>
    /\ UNCHANGED <<kFetched, kOut, kDone, kErr>>
    /\ UNCHANGED OldOthers

\* the promise of fetchContractAddresses resolves with the set S
KResolve ==
  \E S \in AddrSets :
    LET handed == catchOptimisticNetwork([error |-> FALSE, value |-> S])
    IN
    /\ kFetch # <<>>
    /\ Len(kFetched) < MaxOldFetch
    /\ kFetch' = <<>>
    /\ kFetched' = Append(kFetched, S)
    /\ kOut' = EmitDistinct(kOut, handed.values)
    /\ kDone' = handed.completes
    /\ UNCHANGED <<kNet, kErr>>
    /\ UNCHANGED OldOthers

\* the promise rejects: the switchMap passes the error to
\* catchOptimisticNetwork
KReject ==
  LET handed == catchOptimisticNetwork([error |-> TRUE, value |-> None])
  IN
  /\ kFetch # <<>>
  /\ kFetch' = <<>>
  /\ kOut' = EmitDistinct(kOut, handed.values)
  /\ kDone' = handed.completes
  /\ UNCHANGED <<kNet, kFetched, kErr>>
  /\ UNCHANGED OldOthers

\* after the module is loaded: startWith has emitted the default set and
\* the fetch for Mainnet is in flight
OldInit ==
  /\ SwIdle
  /\ OcIdle
  /\ DaIdle
  /\ PipeIdle
  /\ HelpersIdle
  /\ NetIdle
  /\ PosIdle
  /\ SetIdle
  /\ kNet = "Mainnet"
  /\ kFetch = <<"Mainnet">>
  /\ kFetched = <<>>
  /\ kOut = <<DefaultAddresses>>
  /\ kDone = FALSE
  /\ kErr = FALSE

OldNext ==
  \/ KNetwork
  \/ KResolve
  \/ KReject

SpecOldAddresses == OldInit /\ [][OldNext]_vars

\* C25: a fetched address set is emitted by contractAddresses$ after the
\* default set; a failed fetch passes no error on and does not end the
\* stream, which fetches again at the next network change.
C25_FetchedPassAndErrorsAbsorbed ==
  /\ kFetched # <<>> => (Len(kOut) >= 2 /\ Last(kOut) = Last(kFetched))
  /\ ~kErr
  /\ ~kDone

====
